---- MODULE Spec2Model ----
(***************************************************************************)
(* Bulk file renamer: the rename orchestration core (core/renamer.py,      *)
(* core/file_manager.py, utils/file_utils.py) over an explicit model of    *)
(* the directory tree.                                                     *)
(*                                                                         *)
(* A Python str is a sequence of one-character strings; a path is the str  *)
(* of the full path, with "/" as the separator.                            *)
(***************************************************************************)
EXTENDS Integers, Sequences, FiniteSets, TLC

VARIABLES
    disk,               \* the regular files on disk: path -> file identity
    dirs,               \* the directories on disk
    platform,           \* "posix" | "nt": what os.rename does to an existing target
    current_directory,  \* FileManager.current_directory
    recursive,          \* FileManager.recursive
    files,              \* FileManager.files: the list of FileItem
    operation,          \* BulkRenamer.operation: the RenameOperation
    undo_stack,         \* BulkRenamer.undo_stack
    last,               \* the last call: its name, its return value, the state it started from
    prev,               \* the call before the last one
    allowed,            \* the configurations the caller picks from in this run
    budget,             \* the calls the caller still makes in this run
    applied             \* the last function applied on its own: its name, arguments, result

vars == <<disk, dirs, platform, current_directory, recursive, files, operation,
          undo_stack, last, prev, allowed, budget, applied>>

----------------------------------------------------------------------------
(* str *)

\* the characters of the model in code-point order
Ascii ==
    <<" ", "*", "-", ".", "/",
      "0", "1", "2", "3", "4", "5", "6", "7", "8", "9",
      ":", "<", ">", "?",
      "A", "B", "C", "D", "E", "F", "G", "H", "I", "J", "K", "L", "M",
      "N", "O", "P", "Q", "R", "S", "T", "U", "V", "W", "X", "Y", "Z",
      "_",
      "a", "b", "c", "d", "e", "f", "g", "h", "i", "j", "k", "l", "m",
      "n", "o", "p", "q", "r", "s", "t", "u", "v", "w", "x", "y", "z",
      "{", "|", "}">>

Ord(c) == CHOOSE i \in 1..Len(Ascii) : Ascii[i] = c

UpperLetters == SubSeq(Ascii, Ord("A"), Ord("Z"))

LowerLetters == SubSeq(Ascii, Ord("a"), Ord("z"))

Digits == SubSeq(Ascii, Ord("0"), Ord("9"))

\* str.lower() of one character
LowerChar(c) ==
    IF \E i \in 1..Len(UpperLetters) : UpperLetters[i] = c
    THEN LowerLetters[CHOOSE i \in 1..Len(UpperLetters) : UpperLetters[i] = c]
    ELSE c

\* str.upper() of one character
UpperChar(c) ==
    IF \E i \in 1..Len(LowerLetters) : LowerLetters[i] = c
    THEN UpperLetters[CHOOSE i \in 1..Len(LowerLetters) : LowerLetters[i] = c]
    ELSE c

Lower(s) == [i \in 1..Len(s) |-> LowerChar(s[i])]

Upper(s) == [i \in 1..Len(s) |-> UpperChar(s[i])]

\* s < t, the order sorted() puts two str in
RECURSIVE StrLess(_, _)
StrLess(s, t) ==
    IF t = <<>> THEN FALSE
    ELSE IF s = <<>> THEN TRUE
    ELSE IF s[1] = t[1] THEN StrLess(Tail(s), Tail(t))
    ELSE Ord(s[1]) < Ord(t[1])

StartsWith(s, p) == Len(p) <= Len(s) /\ SubSeq(s, 1, Len(p)) = p

EndsWith(s, p) == Len(p) <= Len(s) /\ SubSeq(s, Len(s) - Len(p) + 1, Len(s)) = p

\* str.rfind(c) + 1: the position of the last c in s, 0 if there is none
RFind(s, c) ==
    IF \E i \in 1..Len(s) : s[i] = c
    THEN CHOOSE i \in 1..Len(s) : s[i] = c /\ \A j \in (i + 1)..Len(s) : s[j] # c
    ELSE 0

\* str(n) of an int
RECURSIVE NatStr(_)
NatStr(n) ==
    IF n < 10 THEN <<Digits[n + 1]>>
    ELSE NatStr(n \div 10) \o <<Digits[(n % 10) + 1]>>

IntStr(n) == IF n < 0 THEN <<"-">> \o NatStr(0 - n) ELSE NatStr(n)

\* str.zfill(width): zeros go after a leading sign, nothing is cut
RECURSIVE Zeros(_)
Zeros(k) == IF k <= 0 THEN <<>> ELSE <<"0">> \o Zeros(k - 1)

ZFill(s, width) ==
    IF s # <<>> /\ s[1] = "-"
    THEN <<"-">> \o Zeros(width - Len(s)) \o Tail(s)
    ELSE Zeros(width - Len(s)) \o s

\* str.replace(find, repl) and re.sub(re.escape(find), repl, s, flags=IGNORECASE)
\* for a repl without backslashes: the non-overlapping matches, left to right
RECURSIVE ReplaceAll(_, _, _, _)
ReplaceAll(s, find, repl, case_sensitive) ==
    IF Len(s) < Len(find) \/ find = <<>> THEN s
    ELSE LET head == SubSeq(s, 1, Len(find))
             hit == IF case_sensitive THEN head = find
                    ELSE Lower(head) = Lower(find)
         IN IF hit
            THEN repl \o ReplaceAll(SubSeq(s, Len(find) + 1, Len(s)), find, repl,
                                    case_sensitive)
            ELSE <<s[1]>> \o ReplaceAll(Tail(s), find, repl, case_sensitive)

\* the replacement template re.sub compiles before it looks for a match: a
\* backslash doubles for itself and stands with n, t, r, f for a control
\* character; with a digit from 1 to 9 it refers to a group, which the
\* escaped find text does not have, and at the end of the template it
\* escapes nothing: re.error then (ok = FALSE). Templates with other escapes
\* are not among the inputs.
RECURSIVE ExpandTemplate(_)
ExpandTemplate(repl) ==
    IF repl = <<>> THEN [ok |-> TRUE, str |-> <<>>]
    ELSE IF repl[1] # "\\"
    THEN LET rest == ExpandTemplate(Tail(repl))
         IN [ok |-> rest.ok, str |-> <<repl[1]>> \o rest.str]
    ELSE IF Len(repl) = 1 THEN [ok |-> FALSE, str |-> <<>>]
    ELSE IF \E v \in 2..10 : Digits[v] = repl[2] THEN [ok |-> FALSE, str |-> <<>>]
    ELSE LET rest == ExpandTemplate(SubSeq(repl, 3, Len(repl)))
             c == IF repl[2] = "n" THEN "\n"
                  ELSE IF repl[2] = "t" THEN "\t"
                  ELSE IF repl[2] = "r" THEN "\r"
                  ELSE IF repl[2] = "f" THEN "\f"
                  ELSE repl[2]
         IN [ok |-> rest.ok, str |-> <<c>> \o rest.str]

\* name.replace(find, repl) when case_sensitive, and otherwise
\* re.sub(re.escape(find), repl, name, flags=re.IGNORECASE), which raises
\* re.error (ok = FALSE) for a template it cannot compile, match or no match
Sub(s, find, repl, case_sensitive) ==
    IF case_sensitive THEN [ok |-> TRUE, str |-> ReplaceAll(s, find, repl, TRUE)]
    ELSE LET template == ExpandTemplate(repl)
         IN IF template.ok
            THEN [ok |-> TRUE, str |-> ReplaceAll(s, find, template.str, FALSE)]
            ELSE [ok |-> FALSE, str |-> <<>>]

----------------------------------------------------------------------------
(* os.path *)

Sep == "/"

\* os.path.join(a, b)
Join(a, b) ==
    IF b # <<>> /\ b[1] = Sep THEN b
    ELSE IF a = <<>> \/ a[Len(a)] = Sep THEN a \o b
    ELSE a \o <<Sep>> \o b

\* os.path.basename(p)
Basename(p) == SubSeq(p, RFind(p, Sep) + 1, Len(p))

RECURSIVE RStripSep(_)
RStripSep(s) ==
    IF s # <<>> /\ s[Len(s)] = Sep THEN RStripSep(SubSeq(s, 1, Len(s) - 1)) ELSE s

\* os.path.dirname(p)
Dirname(p) ==
    LET head == SubSeq(p, 1, RFind(p, Sep))
    IN IF head # <<>> /\ \E i \in 1..Len(head) : head[i] # Sep
       THEN RStripSep(head) ELSE head

\* os.path.splitext(p): the extension starts at the last dot of the last
\* component, unless only dots come before it there
SplitExt(p) ==
    LET sepIndex == RFind(p, Sep)
        dotIndex == RFind(p, ".")
    IN IF dotIndex > sepIndex
          /\ \E i \in (sepIndex + 1)..(dotIndex - 1) : p[i] # "."
       THEN <<SubSeq(p, 1, dotIndex - 1), SubSeq(p, dotIndex, Len(p))>>
       ELSE <<p, <<>>>>

----------------------------------------------------------------------------
(* the directory tree *)

\* os.path.exists(p)
PathExists(d, ds, p) == p \in DOMAIN d \/ p \in ds

\* os.path.isfile(p)
IsFile(d, p) == p \in DOMAIN d

\* a directory and the directories above it
RECURSIVE Ancestors(_)
Ancestors(dir) ==
    IF dir = <<>> \/ RFind(dir, Sep) = 0 THEN IF dir = <<>> THEN {} ELSE {dir}
    ELSE {dir} \cup Ancestors(Dirname(dir))

\* os.makedirs(dir, exist_ok=True): the directories afterwards; it raises
\* OSError (ok = FALSE) when no directory is named or a regular file is in the way
MakeDirs(d, ds, dir) ==
    IF dir = <<>> \/ \E a \in Ancestors(dir) : a \in DOMAIN d
    THEN [ok |-> FALSE, dirs |-> ds]
    ELSE [ok |-> TRUE, dirs |-> ds \cup Ancestors(dir)]

\* os.rename(src, dst): the files afterwards; it raises OSError (ok = FALSE)
\* when src is missing, dst is a directory or has no parent directory. An
\* existing regular file at dst is replaced on POSIX and refused on Windows.
OsRename(d, ds, plat, src, dst) ==
    IF src \notin DOMAIN d THEN [ok |-> FALSE, disk |-> d]
    ELSE IF src = dst THEN [ok |-> TRUE, disk |-> d]
    ELSE IF dst \in ds \/ Dirname(dst) \notin ds THEN [ok |-> FALSE, disk |-> d]
    ELSE IF dst \in DOMAIN d /\ plat = "nt" THEN [ok |-> FALSE, disk |-> d]
    ELSE [ok |-> TRUE,
          disk |-> [p \in (DOMAIN d \ {src}) \cup {dst} |->
                      IF p = dst THEN d[src] ELSE d[p]]]

----------------------------------------------------------------------------
(* utils/file_utils.py *)

\* an error message: what it says, the name or path it is about, and the
\* cause it quotes
Err(kind, name, cause) == [kind |-> kind, name |-> name, cause |-> cause]

DEFAULT_FILE_TYPES == <<<<".", "j", "p", "g">>, <<".", "j", "p", "e", "g">>,
                        <<".", "p", "n", "g">>, <<".", "g", "i", "f">>,
                        <<".", "b", "m", "p">>, <<".", "t", "i", "f", "f">>,
                        <<".", "r", "a", "w">>>>

\* sorted(paths)
RECURSIVE Sorted(_)
Sorted(S) ==
    IF S = {} THEN <<>>
    ELSE LET m == CHOOSE x \in S : \A y \in S \ {x} : StrLess(x, y)
         IN <<m>> \o Sorted(S \ {m})

MatchesTypes(filename, file_types) ==
    \E i \in 1..Len(file_types) : EndsWith(Lower(filename), Lower(file_types[i]))

get_files_in_directory(d, ds, directory, file_types, rec) ==
    IF directory = <<>> \/ ~PathExists(d, ds, directory) THEN <<>>
    ELSE IF rec
    THEN Sorted({p \in DOMAIN d : /\ StartsWith(p, directory \o <<Sep>>)
                                  /\ MatchesTypes(Basename(p), file_types)})
    ELSE Sorted({p \in DOMAIN d : /\ Dirname(p) = directory
                                  /\ MatchesTypes(Basename(p), file_types)})

invalid_chars == {"<", ">", ":", "\"", "/", "\\", "|", "?", "*"}

reserved_names ==
    {<<"C", "O", "N">>, <<"P", "R", "N">>, <<"A", "U", "X">>, <<"N", "U", "L">>}
    \cup {<<"C", "O", "M", Digits[i]>> : i \in 2..10}
    \cup {<<"L", "P", "T", Digits[i]>> : i \in 2..10}

is_valid_filename(filename) ==
    /\ filename # <<>>
    /\ \A i \in 1..Len(filename) : filename[i] \notin invalid_chars
    /\ Upper(SplitExt(filename)[1]) \notin reserved_names
    /\ filename[Len(filename)] \notin {" ", "."}

\* the rename that does not look whether the target is taken
safe_rename_unchecked(d, ds, plat, old_path, new_path) ==
    LET refused(msg, ds2) ==
            [ok |-> FALSE, error |-> msg, disk |-> d, dirs |-> ds2,
             onto_existing |-> FALSE]
    IN IF ~is_valid_filename(Basename(new_path)) THEN refused("Invalid filename", ds)
       ELSE LET made == MakeDirs(d, ds, Dirname(new_path))
                moved == OsRename(d, made.dirs, plat, old_path, new_path)
            IN IF ~made.ok THEN refused("OSError", ds)
               ELSE IF ~moved.ok THEN refused("OSError", made.dirs)
               ELSE [ok |-> TRUE, error |-> "", disk |-> moved.disk, dirs |-> made.dirs,
                     onto_existing |-> PathExists(d, made.dirs, new_path)]

\* safe_rename(old_path, new_path): its (success, error_message), the tree
\* afterwards, and whether os.rename was called onto a path that existed
safe_rename(d, ds, plat, old_path, new_path) ==
    LET refused(msg, ds2) ==
            [ok |-> FALSE, error |-> msg, disk |-> d, dirs |-> ds2,
             onto_existing |-> FALSE]
    IN IF PathExists(d, ds, new_path) THEN refused("Target file already exists", ds)
       ELSE IF ~is_valid_filename(Basename(new_path)) THEN refused("Invalid filename", ds)
       ELSE LET made == MakeDirs(d, ds, Dirname(new_path))
                moved == OsRename(d, made.dirs, plat, old_path, new_path)
            IN IF ~made.ok THEN refused("OSError", ds)
               ELSE IF ~moved.ok THEN refused("OSError", made.dirs)
               ELSE [ok |-> TRUE, error |-> "", disk |-> moved.disk, dirs |-> made.dirs,
                     onto_existing |-> PathExists(d, made.dirs, new_path)]

----------------------------------------------------------------------------
(* utils/date_utils.py *)

\* the time stamp the file system keeps for a file identity (one stamp stands
\* for the creation and the modification time)
FileTime(id) ==
    [Y |-> <<"2", "0", "2", "4">>, m |-> <<"0", Digits[(id % 9) + 2]>>, d |-> <<"1", "5">>]

\* the files that carry EXIF data with a DateTimeOriginal tag
HasExif(id) == id = 1

\* datetime.strftime(format): a directive the C library does not know is
\* copied on POSIX and raises ValueError on Windows (ok = FALSE)
RECURSIVE Strftime(_, _, _)
Strftime(t, format, plat) ==
    IF format = <<>> THEN [ok |-> TRUE, str |-> <<>>]
    ELSE IF format[1] # "%"
    THEN LET rest == Strftime(t, Tail(format), plat)
         IN [ok |-> rest.ok, str |-> <<format[1]>> \o rest.str]
    ELSE IF Len(format) = 1
    THEN [ok |-> plat = "posix", str |-> <<"%">>]
    ELSE LET c == format[2]
             rest == Strftime(t, SubSeq(format, 3, Len(format)), plat)
             out == IF c = "Y" THEN t.Y
                    ELSE IF c = "y" THEN SubSeq(t.Y, 3, 4)
                    ELSE IF c = "m" THEN t.m
                    ELSE IF c = "d" THEN t.d
                    ELSE IF c = "%" THEN <<"%">>
                    ELSE <<"%", c>>
         IN [ok |-> rest.ok /\ (c \in {"Y", "y", "m", "d", "%"} \/ plat = "posix"),
             str |-> out \o rest.str]

\* get_date_by_type(file_path, date_type, date_format): the date string, the
\* empty str standing for None too (every caller tests it for truth only)
get_date_by_type(d, plat, file_path, date_type, date_format) ==
    LET type == Lower(date_type)
        known == type \in {<<"c", "r", "e", "a", "t", "i", "o", "n">>,
                           <<"m", "o", "d", "i", "f", "i", "c", "a", "t", "i", "o", "n">>,
                           <<"e", "x", "i", "f">>}
    IN IF ~known \/ file_path \notin DOMAIN d THEN <<>>
       ELSE IF type = <<"e", "x", "i", "f">> /\ ~HasExif(d[file_path]) THEN <<>>
       ELSE LET r == Strftime(FileTime(d[file_path]), date_format, plat)
            IN IF r.ok THEN r.str ELSE <<>>

----------------------------------------------------------------------------
(* utils/validators.py *)

validate_number_input(num, min_value, max_value) == min_value <= num /\ num <= max_value

validate_padding_input(value) == validate_number_input(value, 1, 10)

validate_start_number_input(value) == validate_number_input(value, 0, 999999)

\* the characters of the strings of the model whose ord is below 32
control_characters == {"\t", "\n", "\f", "\r"}

validate_filename_pattern(pattern) ==
    /\ pattern # <<>>
    /\ \A i \in 1..Len(pattern) : pattern[i] \notin invalid_chars
    /\ \A i \in 1..Len(pattern) : pattern[i] \notin control_characters

validate_date_format(date_format, plat) ==
    /\ date_format # <<>>
    /\ Strftime(FileTime(1), date_format, plat).ok

valid_placeholders ==
    {<<"{", "p", "r", "e", "f", "i", "x", "}">>, <<"{", "n", "a", "m", "e", "}">>,
     <<"{", "s", "u", "f", "f", "i", "x", "}">>, <<"{", "n", "u", "m", "}">>,
     <<"{", "d", "a", "t", "e", "}">>}

IsBraced(s) == s # <<>> /\ s[1] = "{" /\ s[Len(s)] = "}"

validate_pattern_placeholder(placeholder) ==
    IF placeholder = <<>> THEN FALSE
    ELSE IF IsBraced(placeholder) THEN placeholder \in valid_placeholders
    ELSE validate_filename_pattern(placeholder)

----------------------------------------------------------------------------
(* core/pattern_builder.py *)

PatternElement(element, position) ==
    [type |-> IF IsBraced(element) THEN "placeholder" ELSE "text",
     value |-> element,
     position |-> position]

\* PatternBuilder.set_pattern_from_list: the list is cleared first, filled
\* up to the first element that is not valid, and False returned there
RECURSIVE set_pattern_from_list_loop(_, _, _)
set_pattern_from_list_loop(elements, pattern_list, i) ==
    IF i > Len(pattern_list) THEN [ok |-> TRUE, elements |-> elements]
    ELSE IF ~validate_pattern_placeholder(pattern_list[i])
    THEN [ok |-> FALSE, elements |-> elements]
    ELSE set_pattern_from_list_loop(
             Append(elements, PatternElement(pattern_list[i], i - 1)), pattern_list, i + 1)

set_pattern_from_list(pattern_list) == set_pattern_from_list_loop(<<>>, pattern_list, 1)

\* list.insert(position, x): a position past the end appends, a negative one
\* counts from the end and stops at the start
ListInsert(l, position, x) ==
    LET at == IF position < 0
              THEN (IF position + Len(l) < 0 THEN 0 ELSE position + Len(l))
              ELSE IF position > Len(l) THEN Len(l) ELSE position
    IN SubSeq(l, 1, at) \o <<x>> \o SubSeq(l, at + 1, Len(l))

\* list.pop(position), for a position of the list: what is left
ListPop(l, position) == SubSeq(l, 1, position) \o SubSeq(l, position + 2, Len(l))

\* PatternBuilder._update_positions
update_positions(elements) ==
    [i \in 1..Len(elements) |-> [elements[i] EXCEPT !.position = i - 1]]

\* add_element that leaves the positions as they are
add_element_unpositioned(elements, element, position) ==
    IF ~validate_pattern_placeholder(element) THEN [ok |-> FALSE, elements |-> elements]
    ELSE LET at == IF position = {} THEN Len(elements) ELSE CHOOSE n \in position : TRUE
         IN [ok |-> TRUE,
             elements |-> ListInsert(elements, at, PatternElement(element, at))]

\* PatternBuilder.add_element; position is {} for None and {n} for n
add_element(elements, element, position) ==
    IF ~validate_pattern_placeholder(element) THEN [ok |-> FALSE, elements |-> elements]
    ELSE LET at == IF position = {} THEN Len(elements) ELSE CHOOSE n \in position : TRUE
         IN [ok |-> TRUE,
             elements |-> update_positions(
                              ListInsert(elements, at, PatternElement(element, at)))]

\* PatternBuilder.remove_element
remove_element(elements, position) ==
    IF 0 <= position /\ position < Len(elements)
    THEN [ok |-> TRUE, elements |-> update_positions(ListPop(elements, position))]
    ELSE [ok |-> FALSE, elements |-> elements]

\* PatternBuilder.move_element
move_element(elements, from_position, to_position) ==
    IF /\ 0 <= from_position /\ from_position < Len(elements)
       /\ 0 <= to_position /\ to_position < Len(elements)
    THEN [ok |-> TRUE,
          elements |-> update_positions(
                           ListInsert(ListPop(elements, from_position), to_position,
                                      elements[from_position + 1]))]
    ELSE [ok |-> FALSE, elements |-> elements]

\* where the first match of \{[^}]+\} at or after index k of s starts: at a
\* '{' that a character other than '}' follows and a '}' closes; 0 for none
MatchStart(s, k) ==
    LET starts == {j \in k..(Len(s) - 2) :
                      /\ s[j] = "{"
                      /\ s[j + 1] # "}"
                      /\ \E e \in (j + 2)..Len(s) : s[e] = "}"}
    IN IF starts = {} THEN 0 ELSE CHOOSE j \in starts : \A m \in starts : j <= m

\* where the match that starts at j ends: at the first '}' after it
MatchEnd(s, j) ==
    CHOOSE e \in (j + 2)..Len(s) :
        s[e] = "}" /\ \A m \in (j + 2)..(e - 1) : s[m] # "}"

\* the list set_pattern_from_string makes of pattern_string from index k
\* on: the placeholders re.finditer finds and the text between them
RECURSIVE pattern_string_elements(_, _)
pattern_string_elements(pattern_string, k) ==
    LET j == MatchStart(pattern_string, k)
    IN IF j = 0
       THEN (IF k <= Len(pattern_string)
             THEN <<SubSeq(pattern_string, k, Len(pattern_string))>> ELSE <<>>)
       ELSE (IF j > k THEN <<SubSeq(pattern_string, k, j - 1)>> ELSE <<>>)
            \o <<SubSeq(pattern_string, j, MatchEnd(pattern_string, j))>>
            \o pattern_string_elements(pattern_string, MatchEnd(pattern_string, j) + 1)

\* PatternBuilder.set_pattern_from_string
set_pattern_from_string(pattern_string) ==
    set_pattern_from_list(pattern_string_elements(pattern_string, 1))

\* PatternBuilder._reset_to_default: the pattern of a new PatternBuilder
default_pattern ==
    <<<<"{", "p", "r", "e", "f", "i", "x", "}">>, <<"{", "n", "a", "m", "e", "}">>,
      <<"{", "s", "u", "f", "f", "i", "x", "}">>, <<"{", "n", "u", "m", "}">>,
      <<"{", "d", "a", "t", "e", "}">>>>

separators == {"-", "_", " "}

\* re.sub(r'[-_\s]+', lambda m: m.group()[0], filename)
RECURSIVE CollapseSeparators(_)
CollapseSeparators(s) ==
    IF Len(s) < 2 THEN s
    ELSE IF s[1] \in separators /\ s[2] \in separators
    THEN CollapseSeparators(<<s[1]>> \o SubSeq(s, 3, Len(s)))
    ELSE <<s[1]>> \o CollapseSeparators(Tail(s))

\* str.strip('-_ ')
RECURSIVE StripSeparators(_)
StripSeparators(s) ==
    IF s = <<>> THEN s
    ELSE IF s[1] \in separators THEN StripSeparators(Tail(s))
    ELSE IF s[Len(s)] \in separators THEN StripSeparators(SubSeq(s, 1, Len(s) - 1))
    ELSE s

\* the value generate_filename looks up for a placeholder
PlaceholderValue(placeholder_name, original_name, values) ==
    IF placeholder_name = <<"p", "r", "e", "f", "i", "x">> THEN values.prefix
    ELSE IF placeholder_name = <<"n", "a", "m", "e">> THEN original_name
    ELSE IF placeholder_name = <<"s", "u", "f", "f", "i", "x">> THEN values.suffix
    ELSE IF placeholder_name = <<"n", "u", "m">> THEN values.num
    ELSE IF placeholder_name = <<"d", "a", "t", "e">> THEN values.date
    ELSE <<>>

RECURSIVE filename_parts(_, _, _, _)
filename_parts(elements, original_name, values, i) ==
    IF i > Len(elements) THEN <<>>
    ELSE LET element == elements[i]
             part == IF element.type = "placeholder"
                     THEN PlaceholderValue(SubSeq(element.value, 2, Len(element.value) - 1),
                                           original_name, values)
                     ELSE element.value
         IN part \o filename_parts(elements, original_name, values, i + 1)

\* the generation that leaves the separators as the tokens gave them
generate_filename_uncleaned(elements, original_name, values, extension) ==
    LET ext == IF extension # <<>> /\ extension[1] # "." THEN <<".">> \o extension
               ELSE extension
        joined == filename_parts(elements, original_name, values, 1)
        filename == IF joined # <<>> THEN joined
                    ELSE IF original_name # <<>> THEN original_name
                    ELSE <<"u", "n", "n", "a", "m", "e", "d">>
    IN filename \o ext

\* PatternBuilder.generate_filename
generate_filename(elements, original_name, values, extension) ==
    LET ext == IF extension # <<>> /\ extension[1] # "." THEN <<".">> \o extension
               ELSE extension
        joined == filename_parts(elements, original_name, values, 1)
        cleaned == StripSeparators(CollapseSeparators(joined))
        filename == IF cleaned # <<>> THEN cleaned
                    ELSE IF original_name # <<>> THEN original_name
                    ELSE <<"u", "n", "n", "a", "m", "e", "d">>
    IN filename \o ext

\* PatternBuilder.validate_pattern
validate_pattern(elements) ==
    /\ elements # <<>>
    /\ \E i \in 1..Len(elements) :
         \/ elements[i].type = "placeholder"
         \/ \E k \in 1..Len(elements[i].value) : elements[i].value[k] # " "

----------------------------------------------------------------------------
(* core/file_manager.py *)

\* FileItem(path, original_name) after __post_init__, which computes every
\* field but new_name from the path, whatever original_name was passed
FileItem(path) ==
    LET split == SplitExt(Basename(path))
    IN [original_path |-> path,
        original_name |-> split[1],
        new_name |-> <<>>,
        extension |-> split[2],
        directory |-> Dirname(path)]

\* FileItem.new_path
new_path(item) ==
    IF item.new_name # <<>>
    THEN Join(item.directory, item.new_name \o item.extension)
    ELSE item.original_path

\* FileManager.load_files: <<returned, files>>.  The list is cleared, and the
\* first FileItem(original_path=file_path) raises TypeError, original_name being
\* a required field of the dataclass; the except clause returns False.
load_files(d, ds, fs, directory, rec) ==
    IF directory = <<>> THEN <<FALSE, fs>>
    ELSE LET file_paths == get_files_in_directory(d, ds, directory, DEFAULT_FILE_TYPES, rec)
         IN IF file_paths = <<>> THEN <<TRUE, <<>>>> ELSE <<FALSE, <<>>>>

\* the list a caller builds itself, [FileItem(p, "") for p in
\* get_files_in_directory(...)], as load_files does not build it
file_items(d, ds, directory, rec) ==
    LET file_paths == get_files_in_directory(d, ds, directory, DEFAULT_FILE_TYPES, rec)
    IN [i \in 1..Len(file_paths) |-> FileItem(file_paths[i])]

\* FileManager.reset_changes
reset_changes(fs) == [i \in 1..Len(fs) |-> [fs[i] EXCEPT !.new_name = <<>>]]

\* FileManager.apply_text_replacement
apply_text_replacement(fs, find_text, replace_text, case_sensitive) ==
    IF find_text = <<>> THEN fs
    ELSE [i \in 1..Len(fs) |->
            [fs[i] EXCEPT !.new_name =
                ReplaceAll(fs[i].original_name, find_text, replace_text, case_sensitive)]]

\* FileManager.apply_prefix_suffix
apply_prefix_suffix(fs, prefix, suffix) ==
    [i \in 1..Len(fs) |-> [fs[i] EXCEPT !.new_name = prefix \o fs[i].original_name \o suffix]]

\* the name a later stage appends to
base_name(item) == IF item.new_name # <<>> THEN item.new_name ELSE item.original_name

\* the numbering that counts the files from one
apply_sequential_numbering_from_one(fs, start_number, padding) ==
    [i \in 1..Len(fs) |->
        [fs[i] EXCEPT !.new_name =
            base_name(fs[i]) \o <<"_">> \o ZFill(IntStr(start_number + i), padding)]]

\* FileManager.apply_sequential_numbering
apply_sequential_numbering(fs, start_number, padding) ==
    [i \in 1..Len(fs) |->
        [fs[i] EXCEPT !.new_name =
            base_name(fs[i]) \o <<"_">> \o ZFill(IntStr(start_number + (i - 1)), padding)]]

\* the date stage that gives the whole batch up when a file has no date
apply_date_addition_all_or_none(fs, d, plat, date_type, date_format) ==
    IF \E i \in 1..Len(fs) :
           get_date_by_type(d, plat, fs[i].original_path, date_type, date_format) = <<>>
    THEN fs
    ELSE [i \in 1..Len(fs) |->
             [fs[i] EXCEPT !.new_name =
                 base_name(fs[i]) \o <<"_">>
                 \o get_date_by_type(d, plat, fs[i].original_path, date_type, date_format)]]

\* FileManager.apply_date_addition
apply_date_addition(fs, d, plat, date_type, date_format) ==
    [i \in 1..Len(fs) |->
        LET date_str == get_date_by_type(d, plat, fs[i].original_path, date_type, date_format)
        IN IF date_str # <<>>
           THEN [fs[i] EXCEPT !.new_name = base_name(fs[i]) \o <<"_">> \o date_str]
           ELSE fs[i]]

\* FileManager.preview_changes: the (original, new) display names
preview_pairs(fs) ==
    [i \in 1..Len(fs) |->
        LET original == fs[i].original_name \o fs[i].extension
        IN <<original,
             IF fs[i].new_name # <<>> THEN fs[i].new_name \o fs[i].extension ELSE original>>]

\* the target check that misses every taken path
target_exists_never(file_item, d, ds) == FALSE

\* the target check that forgets the file's own path
target_exists_even_own(file_item, d, ds) == PathExists(d, ds, new_path(file_item))

\* the target check of FileManager.validate_changes
target_exists(file_item, d, ds) ==
    /\ PathExists(d, ds, new_path(file_item))
    /\ new_path(file_item) # file_item.original_path

\* FileManager.validate_changes: the error messages, in the order they are appended
RECURSIVE validate_changes_loop(_, _, _, _, _, _)
validate_changes_loop(fs, d, ds, i, new_names, errors) ==
    IF i > Len(fs) THEN errors
    ELSE IF fs[i].new_name = <<>>
    THEN validate_changes_loop(fs, d, ds, i + 1, new_names, errors)
    ELSE LET new_full_name == fs[i].new_name \o fs[i].extension
             dup == IF new_full_name \in new_names
                    THEN <<Err("Duplicate filename", new_full_name, "")>> ELSE <<>>
             clash == IF target_exists(fs[i], d, ds)
                      THEN <<Err("Target file already exists", new_full_name, "")>>
                      ELSE <<>>
         IN validate_changes_loop(fs, d, ds, i + 1, new_names \cup {new_full_name},
                                  errors \o dup \o clash)

\* the validation that skips the first file
validate_changes_from_second(fs, d, ds) == validate_changes_loop(fs, d, ds, 2, {}, <<>>)

validate_changes(fs, d, ds) == validate_changes_loop(fs, d, ds, 1, {}, <<>>)

\* the files with a pending name
Pending(fs) == {i \in 1..Len(fs) : fs[i].new_name # <<>>}

\* the loop that gives the batch up at the first rename that fails
RECURSIVE execute_rename_loop_aborting(_, _, _, _)
execute_rename_loop_aborting(st, plat, total_files, i) ==
    IF i > Len(st.files) THEN st
    ELSE IF st.files[i].new_name = <<>>
    THEN execute_rename_loop_aborting(st, plat, total_files, i + 1)
    ELSE LET file_item == st.files[i]
             current_file == st.current_file + 1
             called == Append(st.progress,
                              [current |-> current_file, total |-> total_files,
                               attempted |-> st.current_file])
             old_path == file_item.original_path
             r == safe_rename(st.disk, st.dirs, plat, old_path, new_path(file_item))
         IN IF r.ok
            THEN execute_rename_loop_aborting(
                    [st EXCEPT !.current_file = current_file,
                               !.progress = called,
                               !.successful_renames = Append(@, <<old_path, new_path(file_item)>>),
                               !.files[i] = [file_item EXCEPT
                                                !.original_path = new_path(file_item),
                                                !.original_name = file_item.new_name,
                                                !.new_name = <<>>],
                               !.disk = r.disk,
                               !.dirs = r.dirs,
                               !.onto_existing = @ \/ r.onto_existing],
                    plat, total_files, i + 1)
            ELSE [st EXCEPT !.current_file = current_file,
                            !.progress = called,
                            !.errors = Append(@, Err("Failed to rename",
                                                     Basename(old_path), r.error)),
                            !.dirs = r.dirs]

\* the loop of FileManager.execute_rename over self.files, from item i on;
\* st carries the lists built so far and the tree
RECURSIVE execute_rename_loop(_, _, _, _)
execute_rename_loop(st, plat, total_files, i) ==
    IF i > Len(st.files) THEN st
    ELSE IF st.files[i].new_name = <<>> THEN execute_rename_loop(st, plat, total_files, i + 1)
    ELSE LET file_item == st.files[i]
             current_file == st.current_file + 1
             called == Append(st.progress,
                              [current |-> current_file, total |-> total_files,
                               attempted |-> st.current_file])
             old_path == file_item.original_path
             r == safe_rename(st.disk, st.dirs, plat, old_path, new_path(file_item))
         IN IF r.ok
            THEN execute_rename_loop(
                    [st EXCEPT !.current_file = current_file,
                               !.progress = called,
                               !.successful_renames = Append(@, <<old_path, new_path(file_item)>>),
                               !.files[i] = [file_item EXCEPT
                                                !.original_path = new_path(file_item),
                                                !.original_name = file_item.new_name,
                                                !.new_name = <<>>],
                               !.disk = r.disk,
                               !.dirs = r.dirs,
                               !.onto_existing = @ \/ r.onto_existing],
                    plat, total_files, i + 1)
            ELSE execute_rename_loop(
                    [st EXCEPT !.current_file = current_file,
                               !.progress = called,
                               !.errors = Append(@, Err("Failed to rename",
                                                        Basename(old_path), r.error)),
                               !.dirs = r.dirs],
                    plat, total_files, i + 1)

\* the execute that renames on disk and leaves the entities as they were
fm_execute_rename_forgetting(fs, d, ds, plat) ==
    LET validation_errors == validate_changes(fs, d, ds)
        start == [files |-> fs, disk |-> d, dirs |-> ds, successful_renames |-> <<>>,
                  errors |-> <<>>, current_file |-> 0, progress |-> <<>>,
                  onto_existing |-> FALSE]
    IN IF validation_errors # <<>>
       THEN [start EXCEPT !.errors = validation_errors]
       ELSE [execute_rename_loop(start, plat, Cardinality(Pending(fs)), 1)
                EXCEPT !.files = fs]

\* FileManager.execute_rename: (successful_renames, errors), with the file
\* list and the tree it leaves
fm_execute_rename(fs, d, ds, plat) ==
    LET validation_errors == validate_changes(fs, d, ds)
        start == [files |-> fs, disk |-> d, dirs |-> ds, successful_renames |-> <<>>,
                  errors |-> <<>>, current_file |-> 0, progress |-> <<>>,
                  onto_existing |-> FALSE]
    IN IF validation_errors # <<>>
       THEN [start EXCEPT !.errors = validation_errors]
       ELSE execute_rename_loop(start, plat, Cardinality(Pending(fs)), 1)

----------------------------------------------------------------------------
(* core/renamer.py *)

\* RenameOperation()
RenameOperation ==
    [prefix |-> <<>>, suffix |-> <<>>,
     add_numbers |-> FALSE, start_number |-> 1, padding |-> 3,
     find_text |-> <<>>, replace_text |-> <<>>, case_sensitive |-> TRUE,
     add_date |-> FALSE,
     date_type |-> <<"c", "r", "e", "a", "t", "i", "o", "n">>,
     date_format |-> <<"%", "Y", "-", "%", "m", "-", "%", "d">>,
     use_pattern |-> FALSE,
     elements |-> set_pattern_from_list(default_pattern).elements]

\* RenameOperation.validate: the error messages; valid when there are none
operation_validate(op, plat) ==
    (IF op.add_numbers /\ ~validate_start_number_input(op.start_number)
     THEN <<Err("Start number", <<>>, "")>> ELSE <<>>)
    \o (IF op.add_numbers /\ ~validate_padding_input(op.padding)
        THEN <<Err("Padding", <<>>, "")>> ELSE <<>>)
    \o (IF op.add_date /\ ~validate_date_format(op.date_format, plat)
        THEN <<Err("Date format", <<>>, "")>> ELSE <<>>)
    \o (IF op.use_pattern /\ ~validate_pattern(op.elements)
        THEN <<Err("Pattern", <<>>, "")>> ELSE <<>>)

\* BulkRenamer.configure_operation: the operation it stores; c holds the
\* keyword arguments, pattern_elements empty standing for None too
configure_operation(op, c) ==
    [prefix |-> c.prefix, suffix |-> c.suffix,
     add_numbers |-> c.add_numbers, start_number |-> c.start_number,
     padding |-> c.padding,
     find_text |-> c.find_text, replace_text |-> c.replace_text,
     case_sensitive |-> c.case_sensitive,
     add_date |-> c.add_date, date_type |-> c.date_type, date_format |-> c.date_format,
     use_pattern |-> c.use_pattern,
     elements |-> IF c.use_pattern /\ c.pattern_elements # <<>>
                  THEN set_pattern_from_list(c.pattern_elements).elements
                  ELSE op.elements]

\* BulkRenamer._apply_standard_operations
apply_standard_operations(fs, op, d, plat) ==
    LET replaced == IF op.find_text # <<>>
                    THEN apply_text_replacement(fs, op.find_text, op.replace_text,
                                                op.case_sensitive)
                    ELSE fs
        affixed == IF op.prefix # <<>> \/ op.suffix # <<>>
                   THEN apply_prefix_suffix(replaced, op.prefix, op.suffix)
                   ELSE replaced
        numbered == IF op.add_numbers
                    THEN apply_sequential_numbering(affixed, op.start_number, op.padding)
                    ELSE affixed
    IN IF op.add_date
       THEN apply_date_addition(numbered, d, plat, op.date_type, op.date_format)
       ELSE numbered

\* the generator that gives {name} the original base name, find/replace or not
pattern_generator_unreplaced(file_item, index, op, d, plat) ==
    LET values ==
            [prefix |-> op.prefix,
             suffix |-> op.suffix,
             num |-> IF op.add_numbers
                     THEN ZFill(IntStr(op.start_number + index), op.padding) ELSE <<>>,
             date |-> IF op.add_date
                      THEN get_date_by_type(d, plat, file_item.original_path,
                                            op.date_type, op.date_format)
                      ELSE <<>>]
    IN [raised |-> FALSE,
        name |-> generate_filename(op.elements, file_item.original_name, values, <<>>)]

\* pattern_generator(file_item, index) of BulkRenamer._apply_pattern_operation:
\* the name it returns, or the exception of the find/replace it raises
pattern_generator(file_item, index, op, d, plat) ==
    LET values ==
            [prefix |-> op.prefix,
             suffix |-> op.suffix,
             num |-> IF op.add_numbers
                     THEN ZFill(IntStr(op.start_number + index), op.padding) ELSE <<>>,
             date |-> IF op.add_date
                      THEN get_date_by_type(d, plat, file_item.original_path,
                                            op.date_type, op.date_format)
                      ELSE <<>>]
        replaced == Sub(file_item.original_name, op.find_text, op.replace_text,
                        op.case_sensitive)
        original_name == IF op.find_text # <<>> THEN replaced.str
                         ELSE file_item.original_name
    IN IF op.find_text # <<>> /\ ~replaced.ok
       THEN [raised |-> TRUE, name |-> <<>>]
       ELSE [raised |-> FALSE,
             name |-> generate_filename(op.elements, original_name, values, <<>>)]

\* BulkRenamer._apply_pattern_operation, through FileManager.apply_pattern,
\* which logs an exception of the generator and leaves that file as it is
apply_pattern_operation(fs, op, d, plat) ==
    [i \in 1..Len(fs) |->
        LET generated == pattern_generator(fs[i], i - 1, op, d, plat)
        IN IF generated.raised THEN fs[i]
           ELSE [fs[i] EXCEPT !.new_name = generated.name]]

\* BulkRenamer._apply_operation
apply_operation(fs, op, d, plat) ==
    IF op.use_pattern THEN apply_pattern_operation(fs, op, d, plat)
    ELSE apply_standard_operations(fs, op, d, plat)

\* the preview that keeps the pending names of the preview before
preview_changes_without_reset(fs, op, d, plat) == apply_operation(fs, op, d, plat)

\* BulkRenamer.preview_changes: the file list it leaves
preview_changes(fs, op, d, plat) == apply_operation(reset_changes(fs), op, d, plat)

\* the most batches the undo stack keeps
MAX_UNDO == 10

\* the push that never evicts
push_undo_unbounded(stack, successful_renames) ==
    IF successful_renames = <<>> THEN stack ELSE Append(stack, successful_renames)

\* the push that records a batch even when no file was renamed
push_undo_even_empty(stack, successful_renames) ==
    LET pushed == Append(stack, successful_renames)
    IN IF Len(pushed) > MAX_UNDO THEN Tail(pushed) ELSE pushed

\* the undo stack after BulkRenamer.execute_rename got successful_renames
push_undo(stack, successful_renames) ==
    IF successful_renames = <<>> THEN stack
    ELSE LET pushed == Append(stack, successful_renames)
         IN IF Len(pushed) > MAX_UNDO THEN Tail(pushed) ELSE pushed

\* BulkRenamer.execute_rename
execute_rename(fs, op, stack, d, ds, plat) ==
    LET previewed == preview_changes(fs, op, d, plat)
        validation_errors == validate_changes(previewed, d, ds)
        done == fm_execute_rename(previewed, d, ds, plat)
    IN IF validation_errors # <<>>
       THEN [success |-> FALSE, errors |-> validation_errors, files_renamed |-> 0,
             validation_errors |-> validation_errors, previewed |-> previewed,
             successful_renames |-> <<>>, progress |-> <<>>, onto_existing |-> FALSE,
             files |-> previewed, disk |-> d, dirs |-> ds, undo_stack |-> stack]
       ELSE [success |-> done.errors = <<>>, errors |-> done.errors,
             files_renamed |-> Len(done.successful_renames),
             validation_errors |-> validation_errors, previewed |-> previewed,
             successful_renames |-> done.successful_renames,
             progress |-> done.progress, onto_existing |-> done.onto_existing,
             files |-> done.files, disk |-> done.disk, dirs |-> done.dirs,
             undo_stack |-> push_undo(stack, done.successful_renames)]

\* the loop of BulkRenamer.undo_last_rename over reversed(last_operation),
\* from pair k down; each pair is unpacked as (new_path, old_path)
RECURSIVE undo_loop(_, _, _, _, _)
undo_loop(st, ds, plat, last_operation, k) ==
    IF k = 0 THEN st
    ELSE LET new_path_ == last_operation[k][1]
             old_path == last_operation[k][2]
             moved == OsRename(st.disk, ds, plat, new_path_, old_path)
         IN IF ~PathExists(st.disk, ds, new_path_)
            THEN undo_loop([st EXCEPT !.errors = Append(@, Err("File not found", new_path_, ""))],
                           ds, plat, last_operation, k - 1)
            ELSE IF ~moved.ok
            THEN undo_loop([st EXCEPT !.errors =
                                Append(@, Err("Could not undo rename", new_path_, "OSError"))],
                           ds, plat, last_operation, k - 1)
            ELSE undo_loop([st EXCEPT !.disk = moved.disk,
                                      !.moves = Append(@, <<new_path_, old_path>>),
                                      !.lost = @ \cup (IF old_path \in DOMAIN st.disk
                                                          /\ old_path # new_path_
                                                       THEN {st.disk[old_path]} ELSE {})],
                           ds, plat, last_operation, k - 1)

\* the undo that keeps on the stack a batch it could not reverse
undo_last_rename_keeping_failed(fs, stack, d, ds, plat, directory, rec) ==
    IF stack = <<>>
    THEN [success |-> FALSE, errors |-> <<Err("No operations to undo", <<>>, "")>>,
          popped |-> <<>>, moves |-> <<>>, lost |-> {}, reloaded |-> FALSE,
          files |-> fs, disk |-> d, undo_stack |-> stack]
    ELSE LET last_operation == stack[Len(stack)]
             done == undo_loop([disk |-> d, errors |-> <<>>, moves |-> <<>>, lost |-> {}],
                               ds, plat, last_operation, Len(last_operation))
         IN [success |-> done.errors = <<>>, errors |-> done.errors,
             popped |-> last_operation, moves |-> done.moves, lost |-> done.lost,
             reloaded |-> done.errors = <<>>,
             files |-> IF done.errors = <<>>
                       THEN load_files(done.disk, ds, fs, directory, rec)[2] ELSE fs,
             disk |-> done.disk,
             undo_stack |-> IF done.errors = <<>>
                            THEN SubSeq(stack, 1, Len(stack) - 1) ELSE stack]

\* BulkRenamer.undo_last_rename
undo_last_rename(fs, stack, d, ds, plat, directory, rec) ==
    IF stack = <<>>
    THEN [success |-> FALSE, errors |-> <<Err("No operations to undo", <<>>, "")>>,
          popped |-> <<>>, moves |-> <<>>, lost |-> {}, reloaded |-> FALSE,
          files |-> fs, disk |-> d, undo_stack |-> stack]
    ELSE LET last_operation == stack[Len(stack)]
             done == undo_loop([disk |-> d, errors |-> <<>>, moves |-> <<>>, lost |-> {}],
                               ds, plat, last_operation, Len(last_operation))
         IN [success |-> done.errors = <<>>, errors |-> done.errors,
             popped |-> last_operation, moves |-> done.moves, lost |-> done.lost,
             reloaded |-> done.errors = <<>>,
             files |-> IF done.errors = <<>>
                       THEN load_files(done.disk, ds, fs, directory, rec)[2] ELSE fs,
             disk |-> done.disk,
             undo_stack |-> SubSeq(stack, 1, Len(stack) - 1)]

----------------------------------------------------------------------------
(* the directory and the caller *)

Root == <<"d">>

File(name) == Join(Root, name \o <<".", "j", "p", "g">>)

\* the directories a run may start from
InitialDisks ==
    {(File(<<"a">>) :> 1),
     (File(<<"a">>) :> 1) @@ (File(<<"b">>) :> 2),
     (File(<<"a">>) :> 1) @@ (File(<<"c">>) :> 2) @@ (File(<<"x", "a">>) :> 3)}

\* a directory with a subdirectory: two image files, one of them with its
\* extension in upper case, a text file, and an image file in the subdirectory
\* with the name of one above it
TreeDisk ==
    (Join(Root, <<"B", ".", "J", "P", "G">>) :> 1) @@ (File(<<"a">>) :> 2)
        @@ (Join(Root, <<"n", ".", "t", "x", "t">>) :> 3)
        @@ (Join(Join(Root, <<"s">>), <<"a", ".", "j", "p", "g">>) :> 4)

\* the directories of a tree: the root and those that hold its files
DirsOf(d) == {Root} \cup UNION {Ancestors(Dirname(p)) : p \in DOMAIN d}

\* the keyword defaults of configure_operation
DefaultArgs ==
    [prefix |-> <<>>, suffix |-> <<>>,
     add_numbers |-> FALSE, start_number |-> 1, padding |-> 3,
     find_text |-> <<>>, replace_text |-> <<>>, case_sensitive |-> TRUE,
     add_date |-> FALSE,
     date_type |-> <<"c", "r", "e", "a", "t", "i", "o", "n">>,
     date_format |-> <<"%", "Y", "-", "%", "m", "-", "%", "d">>,
     use_pattern |-> FALSE, pattern_elements |-> <<>>]

\* the configurations a caller passes to configure_operation
Configs ==
    [replace_a_c |-> [DefaultArgs EXCEPT !.find_text = <<"a">>, !.replace_text = <<"c">>],
     replace_b_c |-> [DefaultArgs EXCEPT !.find_text = <<"b">>, !.replace_text = <<"c">>],
     erase_a |-> [DefaultArgs EXCEPT !.find_text = <<"a">>],
     replace_c_a |-> [DefaultArgs EXCEPT !.find_text = <<"c">>, !.replace_text = <<"a">>],
     replace_xa_a |-> [DefaultArgs EXCEPT !.find_text = <<"x", "a">>,
                                          !.replace_text = <<"a">>],
     replace_xb_a |-> [DefaultArgs EXCEPT !.find_text = <<"x", "b">>,
                                          !.replace_text = <<"a">>],
     prefix_x |-> [DefaultArgs EXCEPT !.prefix = <<"x">>],
     numbers |-> [DefaultArgs EXCEPT !.add_numbers = TRUE, !.start_number = 5,
                                     !.padding = 2],
     literal |-> [DefaultArgs EXCEPT !.use_pattern = TRUE,
                                     !.pattern_elements = <<<<"x">>>>],
     slash |-> [DefaultArgs EXCEPT !.find_text = <<"a">>, !.replace_text = <<"s", "/", "t">>],
     colon |-> [DefaultArgs EXCEPT !.find_text = <<"a">>, !.replace_text = <<":">>],
     padding_0 |-> [DefaultArgs EXCEPT !.add_numbers = TRUE, !.start_number = 5,
                                       !.padding = 0]]

\* the configurations that give a name filename legality rejects, or that
\* RenameOperation.validate rejects
OddConfigs == {"slash", "colon", "padding_0"}

\* the configurations that rename a file and then rename it, or another
\* file, to a name a file had before
BackConfigs == {"replace_a_c", "replace_c_a", "prefix_x", "replace_xa_a", "replace_xb_a"}

\* the calls that set a run up, and the calls that follow
SetupCalls ==
    {"set_directory", "set_recursive", "load_files", "set_files", "configure_operation"}

WorkCalls == {"preview_changes", "validate_changes", "execute_rename", "undo_last_rename"}

\* how many set-up calls a run makes
MaxSetup == 4

\* how many other calls a run makes, with any configuration
MaxCalls == 3

\* how many other calls a run makes that renames again and again under one
\* configuration
DeepCalls == 12

Callers ==
    [disk : InitialDisks \ {(File(<<"a">>) :> 1)},
     configs : {(DOMAIN Configs \ (OddConfigs \cup BackConfigs))
                    \cup {"replace_a_c", "prefix_x"}},
     calls : {SetupCalls \cup WorkCalls},
     budget : {[setup |-> MaxSetup, work |-> MaxCalls]}]
    \cup
    [disk : {(File(<<"a">>) :> 1)},
     configs : {{"prefix_x"}},
     calls : {{"set_directory", "set_files", "configure_operation",
               "execute_rename", "undo_last_rename"}},
     budget : {[setup |-> MaxSetup - 1, work |-> DeepCalls]}]
    \cup
    [disk : {(File(<<"a">>) :> 1) @@ (File(<<"b">>) :> 2)},
     configs : {OddConfigs},
     calls : {{"set_directory", "set_files", "configure_operation",
               "preview_changes", "execute_rename"}},
     budget : {[setup |-> MaxSetup - 1, work |-> MaxCalls - 1]}]
    \cup
    [disk : {(File(<<"a">>) :> 1) @@ (File(<<"b">>) :> 2)},
     configs : {BackConfigs},
     calls : {{"set_directory", "set_files", "configure_operation",
               "execute_rename", "undo_last_rename"}},
     budget : {[setup |-> MaxSetup, work |-> MaxCalls + 1]}]
    \cup
    [disk : {TreeDisk},
     configs : {{"prefix_x"}},
     calls : {{"set_directory", "set_recursive", "load_files", "set_files",
               "configure_operation", "validate_changes", "execute_rename"}},
     budget : {[setup |-> MaxSetup + 1, work |-> MaxCalls - 1]}]

----------------------------------------------------------------------------
(* the calls *)

\* what a call started from
Pre == [disk |-> disk, files |-> files, undo_stack |-> undo_stack]

\* the record of a call, before its results are filled in
Call(op) ==
    [op |-> op, pre |-> Pre, ok |-> TRUE, errors |-> <<>>, renamed |-> 0,
     batch |-> <<>>, validation_errors |-> <<>>, previewed |-> <<>>, preview |-> <<>>,
     progress |-> <<>>, onto_existing |-> FALSE,
     popped |-> <<>>, moves |-> <<>>, lost |-> {}, reloaded |-> FALSE]

Init ==
    /\ platform \in {"posix", "nt"}
    /\ current_directory = <<>>
    /\ recursive = FALSE
    /\ files = <<>>
    /\ operation = RenameOperation
    /\ undo_stack = <<>>
    /\ \E c \in Callers : /\ disk = c.disk
                          /\ dirs = DirsOf(c.disk)
                          /\ allowed = [configs |-> c.configs, calls |-> c.calls]
                          /\ budget = c.budget
    /\ last = Call("none")
    /\ prev = Call("none")
    /\ applied = [fn |-> "none"]

\* the caller makes the call op; like the window of ui/main_window.py it
\* previews, validates, renames and undoes once files are loaded
Calls(op) ==
    /\ op \in allowed.calls
    /\ IF op \in SetupCalls
       THEN budget.setup > 0 /\ budget' = [budget EXCEPT !.setup = @ - 1]
       ELSE /\ Len(files) > 0
            /\ budget.work > 0
            /\ budget' = [budget EXCEPT !.work = @ - 1]
    /\ prev' = last
    /\ UNCHANGED <<platform, allowed, applied>>

\* BulkRenamer.set_directory(directory)
SetDirectory(directory) ==
    /\ Calls("set_directory")
    /\ LET valid == directory # <<>> /\ directory \in dirs
       IN /\ current_directory' = IF valid THEN directory ELSE current_directory
          /\ last' = [Call("set_directory") EXCEPT !.ok = valid]
    /\ UNCHANGED <<disk, dirs, recursive, files, operation, undo_stack>>

\* BulkRenamer.set_recursive(recursive)
SetRecursive(value) ==
    /\ Calls("set_recursive")
    /\ recursive' = value
    /\ last' = Call("set_recursive")
    /\ UNCHANGED <<disk, dirs, current_directory, files, operation, undo_stack>>

\* BulkRenamer.load_files()
LoadFiles ==
    /\ Calls("load_files")
    /\ \E r \in {load_files(disk, dirs, files, current_directory, recursive)} :
          /\ files' = r[2]
          /\ last' = [Call("load_files") EXCEPT !.ok = r[1]]
    /\ UNCHANGED <<disk, dirs, current_directory, recursive, operation, undo_stack>>

\* file_manager.files = the items of the files of the current directory
SetFiles ==
    /\ Calls("set_files")
    /\ current_directory # <<>>
    /\ files' = file_items(disk, dirs, current_directory, recursive)
    /\ last' = Call("set_files")
    /\ UNCHANGED <<disk, dirs, current_directory, recursive, operation, undo_stack>>

\* BulkRenamer.configure_operation(**Configs[c])
ConfigureOperation(c) ==
    /\ Calls("configure_operation")
    /\ c \in allowed.configs
    /\ operation' = configure_operation(operation, Configs[c])
    /\ \E errors \in {operation_validate(operation', platform)} :
          last' = [Call("configure_operation") EXCEPT !.errors = errors,
                                                      !.ok = errors = <<>>]
    /\ UNCHANGED <<disk, dirs, current_directory, recursive, files, undo_stack>>

\* BulkRenamer.preview_changes()
PreviewChanges ==
    /\ Calls("preview_changes")
    /\ files' = preview_changes(files, operation, disk, platform)
    /\ last' = [Call("preview_changes") EXCEPT !.preview = preview_pairs(files')]
    /\ UNCHANGED <<disk, dirs, current_directory, recursive, operation, undo_stack>>

\* BulkRenamer.validate_changes()
ValidateChanges ==
    /\ Calls("validate_changes")
    /\ \E errors \in {validate_changes(files, disk, dirs)} :
          last' = [Call("validate_changes") EXCEPT !.validation_errors = errors,
                                                   !.ok = errors = <<>>]
    /\ UNCHANGED <<disk, dirs, current_directory, recursive, files, operation, undo_stack>>

\* BulkRenamer.execute_rename()
ExecuteRename ==
    /\ Calls("execute_rename")
    /\ \E r \in {execute_rename(files, operation, undo_stack, disk, dirs, platform)} :
          /\ files' = r.files
          /\ disk' = r.disk
          /\ dirs' = r.dirs
          /\ undo_stack' = r.undo_stack
          /\ last' = [Call("execute_rename") EXCEPT
                         !.ok = r.success, !.errors = r.errors,
                         !.renamed = r.files_renamed, !.batch = r.successful_renames,
                         !.validation_errors = r.validation_errors,
                         !.previewed = r.previewed,
                         !.preview = preview_pairs(r.previewed),
                         !.progress = r.progress, !.onto_existing = r.onto_existing]
    /\ UNCHANGED <<current_directory, recursive, operation>>

\* BulkRenamer.undo_last_rename()
UndoLastRename ==
    /\ Calls("undo_last_rename")
    /\ \E r \in {undo_last_rename(files, undo_stack, disk, dirs, platform,
                                 current_directory, recursive)} :
          /\ files' = r.files
          /\ disk' = r.disk
          /\ undo_stack' = r.undo_stack
          /\ last' = [Call("undo_last_rename") EXCEPT
                         !.ok = r.success, !.errors = r.errors, !.popped = r.popped,
                         !.moves = r.moves, !.lost = r.lost, !.reloaded = r.reloaded]
    /\ UNCHANGED <<dirs, current_directory, recursive, operation>>

Next ==
    \/ \E directory \in {Root, <<"q">>} : SetDirectory(directory)
    \/ \E value \in BOOLEAN : SetRecursive(value)
    \/ LoadFiles
    \/ SetFiles
    \/ \E c \in DOMAIN Configs : ConfigureOperation(c)
    \/ PreviewChanges
    \/ ValidateChanges
    \/ ExecuteRename
    \/ UndoLastRename

Spec == Init /\ [][Next]_vars

----------------------------------------------------------------------------
(* the functions applied on their own, to the file list of a directory *)

\* the find/replace arguments, the affixes, and whether to number and to date
Finds == {<<<<>>, <<>>>>, <<<<"a">>, <<"c">>>>, <<<<"a">>, <<>>>>, <<<<".">>, <<"c">>>>}

\* no date, or the kind of date to add: the EXIF date is one not every file has
DateTypes == {<<>>, <<"c", "r", "e", "a", "t", "i", "o", "n">>, <<"e", "x", "i", "f">>}

Operations ==
    {[RenameOperation EXCEPT !.find_text = f[1], !.replace_text = f[2],
                             !.case_sensitive = cs,
                             !.prefix = pre, !.suffix = suf,
                             !.add_numbers = n, !.start_number = 5, !.padding = 2,
                             !.add_date = dt # <<>>,
                             !.date_type = IF dt # <<>> THEN dt ELSE RenameOperation.date_type] :
        f \in Finds, cs \in BOOLEAN, pre \in {<<>>, <<"x">>}, suf \in {<<>>, <<"y">>},
        n \in BOOLEAN, dt \in DateTypes}

\* the operations of pattern mode: those above, and a find/replace whose
\* replacement text reads as a group reference when the case is ignored,
\* with a find text that occurs in a name and one that occurs in none
PatternOperations ==
    Operations \cup
        {[RenameOperation EXCEPT !.find_text = f, !.replace_text = <<"\\", "1">>,
                                 !.case_sensitive = cs] :
            f \in {<<"a">>, <<"z">>}, cs \in BOOLEAN}

\* a directory whose names have a letter in both cases, and a dot
NamesDisk ==
    (Join(Root, <<"a", "A", ".", "j", "p", "g">>) :> 1)
        @@ (Join(Root, <<"a", ".", "b", ".", "j", "p", "g">>) :> 2)

\* a renamer whose directory is set and whose files are listed
InitFunctions ==
    /\ disk \in InitialDisks \cup {NamesDisk}
    /\ dirs = {Root}
    /\ platform \in {"posix", "nt"}
    /\ current_directory = Root
    /\ recursive = FALSE
    /\ files = file_items(disk, dirs, Root, FALSE)
    /\ operation = RenameOperation
    /\ undo_stack = <<>>
    /\ allowed = [configs |-> {}, calls |-> {}]
    /\ budget = [setup |-> 0, work |-> 0]
    /\ last = Call("none")
    /\ prev = Call("none")
    /\ applied = [fn |-> "none"]

\* BulkRenamer._apply_standard_operations under the operation op
ApplyStandardOperations(op) ==
    /\ applied.fn = "none"
    /\ applied' = [fn |-> "apply_standard_operations", op |-> op,
                   result |-> apply_standard_operations(files, op, disk, platform)]
    /\ UNCHANGED <<disk, dirs, platform, current_directory, recursive, files, operation,
                   undo_stack, last, prev, allowed, budget>>

\* the start numbers and the paddings numbering is applied with
Starts == {0, 5, 9, 99}

Paddings == 1..3

\* FileManager.apply_sequential_numbering, on files with no pending name
\* (prefixed = FALSE) or with the pending name a prefix gave them
ApplySequentialNumbering(start_number, padding, prefixed) ==
    /\ applied.fn = "none"
    /\ \E fs \in {IF prefixed THEN apply_prefix_suffix(files, <<"x">>, <<>>) ELSE files} :
          applied' = [fn |-> "apply_sequential_numbering", fs |-> fs,
                      start_number |-> start_number, padding |-> padding,
                      result |-> apply_sequential_numbering(fs, start_number, padding)]
    /\ UNCHANGED <<disk, dirs, platform, current_directory, recursive, files, operation,
                   undo_stack, last, prev, allowed, budget>>

\* the token lists a pattern is set from: the default one, and the lists of
\* up to MaxTokens tokens
MaxTokens == 3

Tokens == {default_pattern[1], default_pattern[2], default_pattern[4], <<"_">>, <<"-">>}

PatternLists ==
    {default_pattern} \cup UNION {[1..n -> Tokens] : n \in 1..MaxTokens}

\* the values and the original names a filename is generated from
NoValues == [prefix |-> <<>>, suffix |-> <<>>, num |-> <<>>, date |-> <<>>]

SomeValues ==
    [prefix |-> <<"I", "M", "G">>, suffix |-> <<"e", "d", "i", "t", "e", "d">>,
     num |-> <<"0", "0", "1">>,
     date |-> <<"2", "0", "2", "4", "-", "0", "1", "-", "1", "5">>]

Names == {<<"p", "h", "o", "t", "o">>, <<"a", "_">>, <<>>}

\* PatternBuilder.generate_filename, after set_pattern_from_list(pattern_list)
GenerateFilename(pattern_list, original_name, values, extension) ==
    /\ applied.fn = "none"
    /\ \E set \in {set_pattern_from_list(pattern_list)} :
          /\ set.ok
          /\ applied' = [fn |-> "generate_filename", pattern_list |-> pattern_list,
                         original_name |-> original_name, values |-> values,
                         extension |-> extension,
                         result |-> generate_filename(set.elements, original_name,
                                                      values, extension)]
    /\ UNCHANGED <<disk, dirs, platform, current_directory, recursive, files, operation,
                   undo_stack, last, prev, allowed, budget>>

\* the lists configure_operation is given as pattern_elements: a placeholder,
\* a token in braces that is none of the five, and a literal
ConfiguredTokens == {default_pattern[2], <<"{", "z", "}">>, <<"x">>}

ConfiguredLists == UNION {[1..n -> ConfiguredTokens] : n \in 1..MaxTokens}

\* BulkRenamer.configure_operation(use_pattern=True, pattern_elements=...)
\* and the (is_valid, error_messages) it returns
ConfigurePattern(pattern_elements) ==
    /\ applied.fn = "none"
    /\ \E op \in {configure_operation(operation,
                        [DefaultArgs EXCEPT !.use_pattern = TRUE,
                                            !.pattern_elements = pattern_elements])} :
          /\ operation' = op
          /\ applied' = [fn |-> "configure_operation",
                         pattern_elements |-> pattern_elements,
                         held |-> operation.elements,
                         is_valid |-> operation_validate(op, platform) = <<>>,
                         error_messages |-> operation_validate(op, platform)]
    /\ UNCHANGED <<disk, dirs, platform, current_directory, recursive, files,
                   undo_stack, last, prev, allowed, budget>>

\* the token lists pattern mode is applied with
AppliedPatterns ==
    {default_pattern,
     <<default_pattern[2]>>,
     <<default_pattern[4], <<"_">>, default_pattern[5]>>,
     <<default_pattern[1], <<"-">>, default_pattern[2], <<"-">>, default_pattern[3]>>}

\* BulkRenamer._apply_pattern_operation under the operation op, its pattern
\* set from pattern_list
ApplyPatternOperation(op, pattern_list) ==
    /\ applied.fn = "none"
    /\ \E pop \in {[op EXCEPT !.use_pattern = TRUE,
                               !.elements = set_pattern_from_list(pattern_list).elements]} :
          applied' = [fn |-> "apply_pattern_operation", op |-> pop,
                      pattern_list |-> pattern_list,
                      result |-> apply_pattern_operation(files, pop, disk, platform)]
    /\ UNCHANGED <<disk, dirs, platform, current_directory, recursive, files, operation,
                   undo_stack, last, prev, allowed, budget>>

NextFunctions ==
    \/ \E op \in PatternOperations, pattern_list \in AppliedPatterns :
          ApplyPatternOperation(op, pattern_list)
    \/ \E op \in Operations : ApplyStandardOperations(op)
    \/ \E pattern_elements \in ConfiguredLists : ConfigurePattern(pattern_elements)
    \/ \E pattern_list \in PatternLists, original_name \in Names,
          values \in {NoValues, SomeValues},
          extension \in {<<>>, <<"j", "p", "g">>, <<".", "j", "p", "g">>} :
          GenerateFilename(pattern_list, original_name, values, extension)
    \/ \E start_number \in Starts, padding \in Paddings, prefixed \in BOOLEAN :
          ApplySequentialNumbering(start_number, padding, prefixed)

SpecFunctions == InitFunctions /\ [][NextFunctions]_vars

----------------------------------------------------------------------------
(* the pattern builder edited call after call *)

\* add_element is called on a pattern of fewer tokens than this, so that the
\* default pattern has to lose two tokens before it is given another
MaxElements == 4

\* the tokens a pattern is edited with: two placeholders, a token in braces
\* that is none of the five, the empty token, and literals: a plain one, one
\* with a character no file name may have, the name of a device, one that
\* ends with a period
BuilderTokens ==
    {default_pattern[2], default_pattern[4], <<"{", "z", "}">>, <<>>,
     <<"x">>, <<"a", ":">>, <<"C", "O", "N">>, <<"x", ".">>}

\* the positions the calls are given: before the start, in the pattern, past
\* its end
BuilderPositions == -1..(MaxElements + 1)

BuilderLists ==
    ConfiguredLists \cup {<<>>, <<<<"C", "O", "N">>>>, <<<<"x", ".">>, default_pattern[4]>>,
                          <<default_pattern[4], <<"a", ":">>, <<"x">>>>}

\* '{name}_{num}', 'x{z}{name}', '{}{name}', '{name}x:', '{{name}', 'CON{name'
\* and the empty string
PatternStrings ==
    {default_pattern[2] \o <<"_">> \o default_pattern[4],
     <<"x", "{", "z", "}">> \o default_pattern[2],
     <<"{", "}">> \o default_pattern[2],
     default_pattern[2] \o <<"x", ":">>,
     <<"{">> \o default_pattern[2],
     <<"C", "O", "N", "{", "n", "a", "m", "e">>,
     <<>>}

\* a new PatternBuilder, which holds the default pattern
InitBuilder ==
    /\ InitFunctions
    /\ disk = NamesDisk
    /\ platform = "posix"

\* the call fn of the builder gave r
Edited(fn, r) ==
    /\ operation' = [operation EXCEPT !.elements = r.elements]
    /\ applied' = [fn |-> fn, ok |-> r.ok]
    /\ UNCHANGED <<disk, dirs, platform, current_directory, recursive, files,
                   undo_stack, last, prev, allowed, budget>>

AddElement(element, position) ==
    /\ Len(operation.elements) < MaxElements
    /\ Edited("add_element", add_element(operation.elements, element, position))

RemoveElement(position) ==
    Edited("remove_element", remove_element(operation.elements, position))

MoveElement(from_position, to_position) ==
    Edited("move_element", move_element(operation.elements, from_position, to_position))

SetPatternFromList(pattern_list) ==
    Edited("set_pattern_from_list", set_pattern_from_list(pattern_list))

SetPatternFromString(pattern_string) ==
    Edited("set_pattern_from_string", set_pattern_from_string(pattern_string))

NextBuilder ==
    \/ \E element \in BuilderTokens,
          position \in {{}} \cup {{n} : n \in BuilderPositions} :
          AddElement(element, position)
    \/ \E position \in BuilderPositions : RemoveElement(position)
    \/ \E from_position \in BuilderPositions, to_position \in BuilderPositions :
          MoveElement(from_position, to_position)
    \/ \E pattern_list \in BuilderLists : SetPatternFromList(pattern_list)
    \/ \E pattern_string \in PatternStrings : SetPatternFromString(pattern_string)

SpecBuilder == InitBuilder /\ [][NextBuilder]_vars

----------------------------------------------------------------------------
(* the claims *)

\* the last call was an undo_last_rename that came right after an
\* execute_rename that renamed at least one file
UndoRightAfterExecute ==
    /\ last.op = "undo_last_rename"
    /\ prev.op = "execute_rename"
    /\ prev.renamed > 0

\* C1: an undo_last_rename right after an execute_rename that renamed at least
\* one file returns success, and every file that execute renamed is back at
\* the path it had before the execute.
C1_UndoRestoresOriginalPaths ==
    UndoRightAfterExecute =>
        /\ last.ok
        /\ \A k \in 1..Len(prev.batch) :
             LET old_path == prev.batch[k][1]
             IN old_path \in DOMAIN disk /\ disk[old_path] = prev.pre.disk[old_path]

\* an undo right after an execute that renamed two files
C1_UndoAfterTwoRenames == UndoRightAfterExecute /\ prev.renamed = 2

\* C2 as stated: whatever the depth d in 0..10 of the undo stack before the
\* execute, after the execute and the undo the stack holds d batches again.
C2_CountReturnsToDepth ==
    UndoRightAfterExecute => Len(undo_stack) = Len(prev.pre.undo_stack)

\* C2: after an execute_rename that renamed at least one file and the
\* undo_last_rename right after it, the stack holds d batches again when it
\* held d < 10 before the execute, and 9 when it held 10: the push evicted
\* the oldest batch and the undo popped the new one.
C2_CountReturnsBelowCap ==
    UndoRightAfterExecute =>
        Len(undo_stack) = IF Len(prev.pre.undo_stack) < MAX_UNDO
                          THEN Len(prev.pre.undo_stack) ELSE MAX_UNDO - 1

\* an undo right after an execute that found the stack full
C2_UndoAfterExecuteOnFullStack ==
    UndoRightAfterExecute /\ Len(prev.pre.undo_stack) = MAX_UNDO

\* the files a tree holds
FilesOn(d) == {d[p] : p \in DOMAIN d}

\* C3: execute_rename renames no file onto a path at which a file exists, and
\* every file that was on disk before it is on disk after it, at its old path
\* or at the new path the returned batch gives it.
C3_ExecuteNeverOverwrites ==
    last.op = "execute_rename" =>
        /\ ~last.onto_existing
        /\ FilesOn(disk) = FilesOn(last.pre.disk)
        /\ Cardinality(DOMAIN disk) = Cardinality(DOMAIN last.pre.disk)
        /\ \A p \in DOMAIN last.pre.disk :
             \/ p \in DOMAIN disk /\ disk[p] = last.pre.disk[p]
             \/ \E k \in 1..Len(last.batch) :
                   /\ last.batch[k][1] = p
                   /\ last.batch[k][2] \in DOMAIN disk
                   /\ disk[last.batch[k][2]] = last.pre.disk[p]

\* an execute that renamed a file and refused another whose target was taken
C3_RenamedBesideTakenTarget ==
    /\ last.op = "execute_rename"
    /\ last.renamed > 0
    /\ \E k \in 1..Len(last.errors) : last.errors[k].cause = "Target file already exists"

\* two files of fs propose one name, or one proposes a path that is taken and
\* not its own
Conflict(fs, d, ds) ==
    \/ \E i, j \in Pending(fs) :
          i # j /\ fs[i].new_name \o fs[i].extension = fs[j].new_name \o fs[j].extension
    \/ \E i \in Pending(fs) :
          PathExists(d, ds, new_path(fs[i])) /\ new_path(fs[i]) # fs[i].original_path

\* C4: when the previewed batch has a duplicate name or a taken target,
\* execute_rename returns (False, the validation errors, 0), attempts no
\* rename, and leaves the disk and the undo stack as they were.
C4_ConflictBlocksExecute ==
    last.op = "execute_rename" /\ Conflict(last.previewed, last.pre.disk, dirs) =>
        /\ ~last.ok
        /\ last.errors # <<>>
        /\ last.errors = last.validation_errors
        /\ \A k \in 1..Len(last.errors) :
             last.errors[k].kind \in {"Duplicate filename", "Target file already exists"}
        /\ last.renamed = 0
        /\ last.batch = <<>>
        /\ last.progress = <<>>
        /\ disk = last.pre.disk
        /\ undo_stack = last.pre.undo_stack

\* an execute on a stack that holds a batch, blocked by a duplicate and by a
\* taken target at once
C4_BlockedByBothKinds ==
    /\ last.op = "execute_rename"
    /\ last.pre.undo_stack # <<>>
    /\ \E i, j \in Pending(last.previewed) :
          /\ i # j
          /\ last.previewed[i].new_name = last.previewed[j].new_name
          /\ new_path(last.previewed[i]) \in DOMAIN last.pre.disk
          /\ new_path(last.previewed[i]) # last.previewed[i].original_path

\* safe_rename refuses the pending rename of file i of fs on the tree d
Refused(fs, i, d, ds) ==
    ~safe_rename(d, ds, platform, fs[i].original_path, new_path(fs[i])).ok

\* the last call was an execute_rename whose batch passed validation and in
\* which the rename of file i, and of no other file, is refused
OneFails(i) ==
    /\ last.op = "execute_rename"
    /\ last.validation_errors = <<>>
    /\ i \in Pending(last.previewed)
    /\ \A j \in Pending(last.previewed) :
          Refused(last.previewed, j, last.pre.disk, dirs) <=> j = i

\* C5: when the rename of exactly one file fails in an execute_rename whose
\* batch passed validation, the error list has one entry, which names that
\* file, the count is the number of the other pending files, and each of
\* those is at its new path.
C5_OneFailureLeavesTheOthersRenamed ==
    \A i \in 1..Len(last.previewed) :
        OneFails(i) =>
            /\ Len(last.errors) = 1
            /\ last.errors[1].kind = "Failed to rename"
            /\ last.errors[1].name = Basename(last.previewed[i].original_path)
            /\ last.renamed = Cardinality(Pending(last.previewed)) - 1
            /\ \A j \in Pending(last.previewed) \ {i} :
                 LET item == last.previewed[j]
                 IN /\ new_path(item) \in DOMAIN disk
                    /\ disk[new_path(item)] = last.pre.disk[item.original_path]
                    /\ item.original_path \notin DOMAIN disk

\* an execute in which the first pending file fails and a later one is renamed
C5_FirstFailsLaterRenamed ==
    /\ Len(last.previewed) > 1
    /\ OneFails(1)
    /\ last.renamed > 0

\* C6: the undo stack never holds more than 10 batches, and an execute_rename
\* that pushes a batch onto a stack of 10 leaves the nine newest of them, in
\* their order, below the new batch.
C6_StackBoundedOldestEvicted ==
    /\ Len(undo_stack) <= MAX_UNDO
    /\ (last.op = "execute_rename" /\ last.batch # <<>>
            /\ Len(last.pre.undo_stack) = MAX_UNDO
         => undo_stack = Append(Tail(last.pre.undo_stack), last.batch))

\* an execute that pushed its batch onto a stack of 10 different batches
C6_PushedOntoFullStack ==
    /\ last.op = "execute_rename"
    /\ last.batch # <<>>
    /\ Len(last.pre.undo_stack) = MAX_UNDO
    /\ \A m, n \in 1..MAX_UNDO :
          m # n => last.pre.undo_stack[m] # last.pre.undo_stack[n]

\* C7: undo_last_rename pops the batch pushed last and reverses it: the stack
\* loses its top, and every file that batch renamed is moved from the batch's
\* new path back to its old path, so that undos reverse the batches in the
\* opposite order of their creation.
C7_UndoReversesNewestBatch ==
    last.op = "undo_last_rename" /\ last.pre.undo_stack # <<>> =>
        /\ last.popped = last.pre.undo_stack[Len(last.pre.undo_stack)]
        /\ undo_stack = SubSeq(last.pre.undo_stack, 1, Len(last.pre.undo_stack) - 1)
        /\ \A k \in 1..Len(last.popped) :
             LET old_path == last.popped[k][1]
                 new_path_ == last.popped[k][2]
             IN new_path_ \in DOMAIN last.pre.disk =>
                    /\ old_path \in DOMAIN disk
                    /\ disk[old_path] = last.pre.disk[new_path_]

\* two undos in a row after two executes in a row, the stack holding both
\* batches before the first undo
C7_TwoUndosAfterTwoExecutes ==
    /\ last.op = "undo_last_rename"
    /\ prev.op = "undo_last_rename"
    /\ Len(prev.pre.undo_stack) >= 2
    /\ last.popped = prev.pre.undo_stack[Len(prev.pre.undo_stack) - 1]
    /\ prev.popped = prev.pre.undo_stack[Len(prev.pre.undo_stack)]

\* the last two calls were preview_changes
ConsecutivePreviews == last.op = "preview_changes" /\ prev.op = "preview_changes"

\* C8: in standard mode the second of two consecutive preview_changes calls
\* returns the pairs the first returned and leaves every file the pending
\* name the first left it.
C8_PreviewTwiceIsPreviewOnce ==
    ConsecutivePreviews /\ ~operation.use_pattern =>
        /\ last.preview = prev.preview
        /\ files = last.pre.files

\* two consecutive previews that number three files
C8_NumberedTwice ==
    /\ ConsecutivePreviews
    /\ operation.add_numbers
    /\ ~operation.use_pattern
    /\ Cardinality(Pending(files)) = 3

\* the final name file i of fs proposes
FullName(fs, i) == fs[i].new_name \o fs[i].extension

\* the files of fs that propose the final name name
Proposers(fs, name) == {i \in Pending(fs) : FullName(fs, i) = name}

\* how many errors of a kind name name
Reported(errors, kind, name) ==
    Cardinality({k \in 1..Len(errors) : errors[k].kind = kind /\ errors[k].name = name})

\* C9: validate_changes reports, for every final name that k files propose,
\* k - 1 'Duplicate filename' errors naming it, and no such error names a
\* name that fewer than two files propose.
C9_DuplicatesReportedButTheFirst ==
    last.op = "validate_changes" =>
        /\ \A i \in Pending(files) :
             Reported(last.validation_errors, "Duplicate filename", FullName(files, i))
                 = Cardinality(Proposers(files, FullName(files, i))) - 1
        /\ \A k \in 1..Len(last.validation_errors) :
             last.validation_errors[k].kind = "Duplicate filename" =>
                 Cardinality(Proposers(files, last.validation_errors[k].name)) >= 2

\* a validation of three files that propose one name
C9_ThreeProposeOneName ==
    /\ last.op = "validate_changes"
    /\ \E i \in Pending(files) : Cardinality(Proposers(files, FullName(files, i))) = 3

\* file i of fs proposes a path that is taken and is not its own
TakenTarget(fs, i) ==
    /\ PathExists(disk, dirs, new_path(fs[i]))
    /\ new_path(fs[i]) # fs[i].original_path

\* C10: validate_changes reports one 'Target file already exists' error for
\* each file whose proposed path is taken and is not its own path, and none
\* for any other file; a file that proposes its own path, and whose name no
\* other file proposes, is named by no validation error.
C10_TargetExistsButNotOwnPath ==
    last.op = "validate_changes" =>
        /\ \A i \in Pending(files) :
             Reported(last.validation_errors, "Target file already exists",
                      FullName(files, i))
                 = Cardinality({j \in Proposers(files, FullName(files, i)) :
                                   TakenTarget(files, j)})
        /\ \A k \in 1..Len(last.validation_errors) :
             last.validation_errors[k].kind = "Target file already exists" =>
                 \E i \in Proposers(files, last.validation_errors[k].name) :
                     TakenTarget(files, i)
        /\ \A i \in Pending(files) :
             /\ new_path(files[i]) = files[i].original_path
             /\ Proposers(files, FullName(files, i)) = {i}
             => \A k \in 1..Len(last.validation_errors) :
                    last.validation_errors[k].name # FullName(files, i)

\* a validation of a file whose target is another file's path, beside a file
\* that proposes its own path
C10_TakenTargetBesideOwnPath ==
    /\ last.op = "validate_changes"
    /\ \E i, j \in Pending(files) :
          /\ TakenTarget(files, i)
          /\ new_path(files[j]) = files[j].original_path

\* the base name of file i of fs when each enabled stage of op takes the
\* output of the enabled stage before it
Staged(fs, i, op) ==
    LET replaced == IF op.find_text # <<>>
                    THEN ReplaceAll(fs[i].original_name, op.find_text, op.replace_text,
                                    op.case_sensitive)
                    ELSE fs[i].original_name
        affixed == IF op.prefix # <<>> \/ op.suffix # <<>>
                   THEN op.prefix \o replaced \o op.suffix ELSE replaced
        numbered == IF op.add_numbers
                    THEN affixed \o <<"_">>
                         \o ZFill(IntStr(op.start_number + (i - 1)), op.padding)
                    ELSE affixed
        date_str == get_date_by_type(disk, platform, fs[i].original_path,
                                     op.date_type, op.date_format)
    IN IF op.add_date /\ date_str # <<>> THEN numbered \o <<"_">> \o date_str
       ELSE numbered

\* some stage of op is enabled
Staging(op) ==
    op.find_text # <<>> \/ op.prefix # <<>> \/ op.suffix # <<>> \/ op.add_numbers
        \/ op.add_date

\* C11: in standard mode the proposed base name of every file is the result
\* of find/replace on the original base name, then prefix + current + suffix,
\* then current + '_' + number, then current + '_' + date, each enabled stage
\* taking the output of the enabled stage before it, the empty name included.
C11_StagesFeedEachOther ==
    applied.fn = "apply_standard_operations" /\ Staging(applied.op) =>
        \A i \in 1..Len(files) :
            applied.result[i].new_name = Staged(files, i, applied.op)

\* find/replace and a prefix applied together, to a name the find text is in
C11_ReplacedThenPrefixed ==
    /\ applied.fn = "apply_standard_operations"
    /\ applied.op.find_text # <<>>
    /\ applied.op.prefix # <<>>
    /\ \E i \in 1..Len(files) :
          ReplaceAll(files[i].original_name, applied.op.find_text,
                     applied.op.replace_text, TRUE) # files[i].original_name

\* the number a str of decimal digits writes
RECURSIVE DecimalValue(_)
DecimalValue(s) ==
    IF s = <<>> THEN 0
    ELSE 10 * DecimalValue(SubSeq(s, 1, Len(s) - 1))
         + (CHOOSE v \in 0..9 : Digits[v + 1] = s[Len(s)])

\* C12: numbering gives the file at zero-based position i the name it had,
\* then '_', then start + i written in decimal digits and left-padded with
\* zeros to the padding width, no digit dropped and no zero added beyond it.
C12_NumberIsStartPlusIndexZeroPadded ==
    applied.fn = "apply_sequential_numbering" =>
        \A i \in 1..Len(applied.fs) :
            LET name == applied.result[i].new_name
                base == IF applied.fs[i].new_name # <<>> THEN applied.fs[i].new_name
                        ELSE applied.fs[i].original_name
                number == SubSeq(name, Len(base) + 2, Len(name))
            IN /\ SubSeq(name, 1, Len(base) + 1) = base \o <<"_">>
               /\ \A k \in 1..Len(number) : \E v \in 0..9 : Digits[v + 1] = number[k]
               /\ DecimalValue(number) = applied.start_number + (i - 1)
               /\ Len(number) >= applied.padding
               /\ Len(number) > applied.padding => number[1] # "0"

\* start 5 and padding 2 over three files give 05, 06, 07 in list order
C12_FiveSixSeven ==
    /\ applied.fn = "apply_sequential_numbering"
    /\ applied.start_number = 5
    /\ applied.padding = 2
    /\ Len(applied.fs) = 3
    /\ applied.result[1].new_name = <<"a", "_", "0", "5">>
    /\ applied.result[2].new_name = <<"c", "_", "0", "6">>
    /\ applied.result[3].new_name = <<"x", "a", "_", "0", "7">>

\* what the tokens from token i on emit, one after the other: a literal as it
\* is, a placeholder as its value
RECURSIVE Emitted(_, _, _, _)
Emitted(pattern_list, original_name, values, i) ==
    IF i > Len(pattern_list) THEN <<>>
    ELSE (IF pattern_list[i] = default_pattern[1] THEN values.prefix
          ELSE IF pattern_list[i] = default_pattern[2] THEN original_name
          ELSE IF pattern_list[i] = default_pattern[3] THEN values.suffix
          ELSE IF pattern_list[i] = default_pattern[4] THEN values.num
          ELSE IF pattern_list[i] = default_pattern[5] THEN values.date
          ELSE pattern_list[i])
         \o Emitted(pattern_list, original_name, values, i + 1)

\* s with every run of separators cut down to its first character
Squeezed(s) ==
    LET kept == {k \in 1..Len(s) : ~(k > 1 /\ s[k] \in separators /\ s[k - 1] \in separators)}
    IN [j \in 1..Cardinality(kept) |->
           s[CHOOSE k \in kept : Cardinality({m \in kept : m <= k}) = j]]

\* s without the separators at its two ends
Trimmed(s) ==
    LET solid == {k \in 1..Len(s) : s[k] \notin separators}
    IN IF solid = {} THEN <<>>
       ELSE SubSeq(s, CHOOSE k \in solid : \A m \in solid : k <= m,
                      CHOOSE k \in solid : \A m \in solid : m <= k)

\* the extension with its dot
Dotted(extension) ==
    IF extension # <<>> /\ extension[1] # "." THEN <<".">> \o extension ELSE extension

\* C13 as stated: generate_filename gives the literal tokens and the
\* non-empty placeholder values exactly as they are, one after the other,
\* then the extension.
C13_TokensVerbatim ==
    applied.fn = "generate_filename" =>
        applied.result
            = Emitted(applied.pattern_list, applied.original_name, applied.values, 1)
              \o Dotted(applied.extension)

\* C13: generate_filename puts the literal tokens and the non-empty
\* placeholder values one after the other with no separator of its own, cuts
\* every run of '-', '_' and ' ' down to its first character, strips those
\* characters from both ends, takes the original name (or 'unnamed') when
\* nothing is left, and appends the extension; the default token list with
\* IMG, photo, edited, 001, 2024-01-15 and .jpg gives
\* IMGphotoedited0012024-01-15.jpg.
C13_TokensJoinedThenSeparatorsCleaned ==
    applied.fn = "generate_filename" =>
        LET body == Trimmed(Squeezed(Emitted(applied.pattern_list, applied.original_name,
                                             applied.values, 1)))
        IN /\ applied.result
                = (IF body # <<>> THEN body
                   ELSE IF applied.original_name # <<>> THEN applied.original_name
                   ELSE <<"u", "n", "n", "a", "m", "e", "d">>)
                  \o Dotted(applied.extension)
           /\ (/\ applied.pattern_list = default_pattern
               /\ applied.values = SomeValues
               /\ applied.original_name = <<"p", "h", "o", "t", "o">>
               /\ applied.extension = <<".", "j", "p", "g">>)
              => applied.result
                   = <<"I", "M", "G", "p", "h", "o", "t", "o", "e", "d", "i", "t", "e", "d",
                       "0", "0", "1", "2", "0", "2", "4", "-", "0", "1", "-", "1", "5",
                       ".", "j", "p", "g">>

\* a literal '_' between an empty prefix and the name, which is stripped
C13_LeadingLiteralStripped ==
    /\ applied.fn = "generate_filename"
    /\ applied.pattern_list = <<default_pattern[1], <<"_">>, default_pattern[2]>>
    /\ applied.values = NoValues
    /\ applied.original_name = <<"p", "h", "o", "t", "o">>
    /\ applied.result = <<"p", "h", "o", "t", "o">> \o Dotted(applied.extension)

\* C14: execute_rename renames no file whose proposed final name fails the
\* filename-legality check: the file stays at its old path, and when the batch
\* passed validation it is reported as a per-file error.
C14_IllegalNameNeverRenamed ==
    last.op = "execute_rename" =>
        \A i \in Pending(last.previewed) :
            ~is_valid_filename(FullName(last.previewed, i)) =>
                LET old_path == last.previewed[i].original_path
                IN /\ \A k \in 1..Len(last.batch) : last.batch[k][1] # old_path
                   /\ old_path \in DOMAIN disk
                   /\ disk[old_path] = last.pre.disk[old_path]
                   /\ last.validation_errors = <<>> =>
                          \E k \in 1..Len(last.errors) :
                              /\ last.errors[k].kind = "Failed to rename"
                              /\ last.errors[k].name = Basename(old_path)

\* an execute that refused a name for a character of it
C14_RefusedForItsCharacter ==
    /\ last.op = "execute_rename"
    /\ \E i \in Pending(last.previewed) :
          /\ ":" \in {FullName(last.previewed, i)[k] :
                          k \in 1..Len(FullName(last.previewed, i))}
          /\ last.previewed[i].original_path \in DOMAIN disk
          /\ \E k \in 1..Len(last.errors) :
                /\ last.errors[k].name = Basename(last.previewed[i].original_path)
                /\ last.errors[k].cause = "Invalid filename"

\* C15: while the stored configuration is one RenameOperation.validate
\* rejects, execute_rename renames nothing.
C15_InvalidConfigurationBlocksExecute ==
    last.op = "execute_rename" /\ operation_validate(operation, platform) # <<>> =>
        /\ last.batch = <<>>
        /\ last.renamed = 0
        /\ disk = last.pre.disk

\* an execute right after a configure_operation that returned is_valid = False
C15_ExecuteAfterRejectedConfigure ==
    /\ last.op = "execute_rename"
    /\ prev.op = "configure_operation"
    /\ ~prev.ok
    /\ Len(last.pre.files) > 1

\* a token in braces that is not one of the five placeholders
UnknownPlaceholder(token) == IsBraced(token) /\ token \notin valid_placeholders

\* C16: configure_operation in pattern mode returns is_valid = False for every
\* pattern_elements holding a token in braces outside the five placeholders,
\* at whatever position of the list.
C16_UnknownPlaceholderRejected ==
    applied.fn = "configure_operation" =>
        ((\E i \in 1..Len(applied.pattern_elements) :
              UnknownPlaceholder(applied.pattern_elements[i]))
            => ~applied.is_valid)

\* a list rejected for the unknown placeholder it starts with
C16_RejectedForItsFirstToken ==
    /\ applied.fn = "configure_operation"
    /\ Len(applied.pattern_elements) > 1
    /\ UnknownPlaceholder(applied.pattern_elements[1])
    /\ ~applied.is_valid
    /\ operation.elements = <<>>

\* the pairs of the batch the last undo popped, newest first, and those of
\* them whose renamed file was not on disk when the undo began
PoppedNewestFirst == [k \in 1..Len(last.popped) |-> last.popped[Len(last.popped) + 1 - k]]

RenamedFileGone(pair) == ~PathExists(last.pre.disk, dirs, pair[2])

\* C17: undo_last_rename takes the pairs of the popped batch newest first; a
\* pair whose renamed file is gone adds one error naming that file, every
\* other pair is reversed all the same, and the call fails exactly when there
\* were errors.
C17_GonePairsReportedOthersReversed ==
    last.op = "undo_last_rename" /\ last.popped # <<>> =>
        LET gone == SelectSeq(PoppedNewestFirst, RenamedFileGone)
        IN /\ last.errors = [k \in 1..Len(gone) |-> Err("File not found", gone[k][2], "")]
           /\ last.ok = (gone = <<>>)
           /\ \A k \in 1..Len(last.popped) :
                ~RenamedFileGone(last.popped[k]) =>
                    /\ last.popped[k][1] \in DOMAIN disk
                    /\ disk[last.popped[k][1]] = last.pre.disk[last.popped[k][2]]

\* an undo of a batch of two pairs that failed with one error for each, the
\* error of the pair recorded last coming first
C17_TwoErrorsNewestFirst ==
    /\ last.op = "undo_last_rename"
    /\ Len(last.popped) = 2
    /\ ~last.ok
    /\ Len(last.errors) = 2
    /\ last.errors[1].name = last.popped[2][1]
    /\ last.errors[2].name = last.popped[1][1]

\* C18: an undo_last_rename on a non-empty stack leaves the stack without its
\* top batch, whether or not a pair failed to reverse; on an empty stack it
\* fails and leaves the stack, the file list and the disk as they were.
C18_UndoConsumesOneBatch ==
    last.op = "undo_last_rename" =>
        IF last.pre.undo_stack # <<>>
        THEN /\ Len(undo_stack) = Len(last.pre.undo_stack) - 1
             /\ undo_stack = SubSeq(last.pre.undo_stack, 1, Len(last.pre.undo_stack) - 1)
        ELSE /\ ~last.ok
             /\ undo_stack = <<>>
             /\ files = last.pre.files
             /\ disk = last.pre.disk

\* an undo that succeeded right after an undo that failed, each taking one
\* batch off the stack
C18_FailedThenSucceeded ==
    /\ last.op = "undo_last_rename"
    /\ prev.op = "undo_last_rename"
    /\ ~prev.ok
    /\ last.ok
    /\ Len(prev.pre.undo_stack) = 2
    /\ undo_stack = <<>>

\* C19: after every undo_last_rename that popped a batch, with or without
\* errors, every file of the file list is at a path that is a file on disk.
C19_FileListOnDiskAfterUndo ==
    last.op = "undo_last_rename" /\ last.popped # <<>> =>
        \A i \in 1..Len(files) : IsFile(disk, files[i].original_path)

\* an undo that moved a file and reported an error for another
C19_MovedOneFailedOne ==
    /\ last.op = "undo_last_rename"
    /\ Len(last.popped) = 2
    /\ Len(last.moves) = 1
    /\ Len(last.errors) = 1
    /\ ~last.reloaded

\* C20: in an execute_rename that went past validation the progress callback
\* is called once for each file with a pending name, the k-th call with
\* (k, total) and after the rename of the k-th such file has been attempted.
C20_ProgressAfterEachAttempt ==
    last.op = "execute_rename" /\ last.validation_errors = <<>> =>
        LET total == Cardinality(Pending(last.previewed))
        IN /\ Len(last.progress) = total
           /\ \A k \in 1..Len(last.progress) :
                /\ last.progress[k].current = k
                /\ last.progress[k].total = total
                /\ last.progress[k].attempted = k

\* an execute that called the callback with (1, 2) and then with (2, 2)
C20_CalledTwiceForTwoFiles ==
    /\ last.op = "execute_rename"
    /\ last.renamed = 2
    /\ Len(last.progress) = 2
    /\ last.progress[1].current = 1 /\ last.progress[1].total = 2
    /\ last.progress[2].current = 2 /\ last.progress[2].total = 2

\* the regular files right under directory whose names end in one of the
\* configured extensions, whatever the case of their letters
DirectChildren(d, directory) ==
    {p \in DOMAIN d :
        /\ Dirname(p) = directory
        /\ \E t \in 1..Len(DEFAULT_FILE_TYPES) :
              EndsWith(Lower(Basename(p)), DEFAULT_FILE_TYPES[t])}

\* C21: with recursive = False, load_files loads the regular files right
\* under the directory whose names end in a configured extension, and only
\* them, in the order of their paths; no file of a subdirectory is loaded.
C21_LoadsDirectChildrenInOrder ==
    last.op = "load_files" /\ current_directory # <<>> /\ ~recursive =>
        /\ {files[i].original_path : i \in 1..Len(files)}
               = DirectChildren(disk, current_directory)
        /\ \A i, j \in 1..Len(files) :
              i < j => StrLess(files[i].original_path, files[j].original_path)

\* a load_files without recursion in a directory that has matching files of
\* its own and one in a subdirectory
C21_LoadedBesideSubdirectory ==
    /\ last.op = "load_files"
    /\ ~recursive
    /\ current_directory = Root
    /\ DirectChildren(disk, Root) # {}
    /\ \E p \in DOMAIN disk : Dirname(p) # Root

\* the name find/replace gives when letters are compared without their case
\* and the find text is taken as it is written
Folded(name, op) == ReplaceAll(name, op.find_text, op.replace_text, FALSE)

\* C22: with a case-insensitive find/replace every occurrence of the find
\* text in the base name is replaced whatever its case, the find text being a
\* literal string, and when the result is not empty the later stages (prefix
\* and suffix, number) are applied to it.
C22_FoldedReplacementThenLaterStages ==
    /\ applied.fn = "apply_standard_operations"
    /\ applied.op.find_text # <<>>
    /\ ~applied.op.case_sensitive
    /\ ~applied.op.add_date
    => \A i \in 1..Len(files) :
           LET replaced == Folded(files[i].original_name, applied.op)
               affixed == applied.op.prefix \o replaced \o applied.op.suffix
           IN replaced # <<>> =>
                  applied.result[i].new_name =
                      IF applied.op.add_numbers
                      THEN affixed \o <<"_">>
                           \o ZFill(IntStr(applied.op.start_number + (i - 1)),
                                    applied.op.padding)
                      ELSE affixed

\* a case-insensitive replacement of a, alone, in a name that has a and A:
\* both are replaced, and the dot of another name is left by a find of "."
C22_BothCasesReplaced ==
    /\ applied.fn = "apply_standard_operations"
    /\ ~applied.op.case_sensitive
    /\ applied.op.find_text = <<"a">>
    /\ applied.op.replace_text = <<"c">>
    /\ applied.op.prefix = <<>> /\ applied.op.suffix = <<>>
    /\ ~applied.op.add_numbers /\ ~applied.op.add_date
    /\ \E i \in 1..Len(files) :
          /\ files[i].original_name = <<"a", "A">>
          /\ applied.result[i].new_name = <<"c", "c">>

\* C23: no execute_rename and no undo_last_rename overwrites or loses a file:
\* the files on disk after the call are the files that were there before it.
C23_NoCallLosesAFile ==
    last.op \in {"execute_rename", "undo_last_rename"} =>
        FilesOn(disk) = FilesOn(last.pre.disk)

\* an undo that renamed a file onto the path of another file
C23_UndoOntoAnotherFile ==
    /\ last.op = "undo_last_rename"
    /\ last.lost # {}
    /\ Cardinality(DOMAIN disk) < Cardinality(DOMAIN last.pre.disk)

\* C24: in an execute_rename whose batch passed validation no file fails
\* with 'Target file already exists', and a file whose proposed name is its
\* current name is not reported and does not make the call fail.
C24_NoTakenTargetAfterValidation ==
    last.op = "execute_rename" /\ last.validation_errors = <<>> =>
        /\ \A k \in 1..Len(last.errors) :
              last.errors[k].cause # "Target file already exists"
        /\ (\A i \in Pending(last.previewed) :
                new_path(last.previewed[i]) = last.previewed[i].original_path)
            => last.ok

\* an execute that passed validation with a file proposing its own name
\* beside a file that was renamed
C24_OwnNameBesideRenamed ==
    /\ last.op = "execute_rename"
    /\ last.validation_errors = <<>>
    /\ last.renamed > 0
    /\ \E i \in Pending(last.previewed) :
          new_path(last.previewed[i]) = last.previewed[i].original_path

\* the extension of the file at path
ExtensionOf(path) == SplitExt(Basename(path))[2]

\* C25: every pair an execute_rename records has its new path in the
\* directory of its old path and with the extension of its old path, and in
\* every state every file of the list has path = directory / (base name +
\* extension), its directory being the parent directory of its path.
C25_RenamedInPlaceAndEntitiesConsistent ==
    /\ last.op = "execute_rename" =>
            \A k \in 1..Len(last.batch) :
                /\ Dirname(last.batch[k][2]) = Dirname(last.batch[k][1])
                /\ ExtensionOf(last.batch[k][2]) = ExtensionOf(last.batch[k][1])
    /\ \A i \in 1..Len(files) :
          /\ files[i].original_path
                 = Join(files[i].directory, files[i].original_name \o files[i].extension)
          /\ files[i].directory = Dirname(files[i].original_path)

\* an execute that renamed a file whose extension is in upper case
C25_RenamedWithUpperCaseExtension ==
    /\ last.op = "execute_rename"
    /\ \E k \in 1..Len(last.batch) :
          /\ ExtensionOf(last.batch[k][1]) = <<".", "J", "P", "G">>
          /\ ExtensionOf(last.batch[k][2]) = <<".", "J", "P", "G">>
          /\ last.batch[k][2] \in DOMAIN disk

\* the files validated by the last call: the list itself, or the list as
\* execute_rename previewed it
Validated == IF last.op = "execute_rename" THEN last.previewed ELSE files

\* C26: every duplicate that validation reports is for two pending files
\* that would be renamed to one full path; files of different directories
\* that propose one file name are not reported and do not block execute_rename.
C26_DuplicateMeansSameTargetPath ==
    last.op \in {"validate_changes", "execute_rename"} =>
        \A k \in 1..Len(last.validation_errors) :
            last.validation_errors[k].kind = "Duplicate filename" =>
                \E i, j \in Pending(Validated) :
                    /\ i # j
                    /\ FullName(Validated, i) = last.validation_errors[k].name
                    /\ new_path(Validated[i]) = new_path(Validated[j])

\* a validation of a list loaded recursively in which two files of different
\* directories propose one file name
C26_OneNameInTwoDirectories ==
    /\ last.op = "validate_changes"
    /\ recursive
    /\ \E i, j \in Pending(files) :
          /\ FullName(files, i) = FullName(files, j)
          /\ files[i].directory # files[j].directory
          /\ new_path(files[i]) # new_path(files[j])

\* the pending files of the last execute_rename that are now at their new
\* path, and the pair that stands for such a file
Moved ==
    {i \in Pending(last.previewed) :
        LET item == last.previewed[i]
        IN /\ item.original_path \in DOMAIN last.pre.disk
           /\ new_path(item) # item.original_path
           /\ new_path(item) \in DOMAIN disk
           /\ disk[new_path(item)] = last.pre.disk[item.original_path]}

PairOf(i) == <<last.previewed[i].original_path, new_path(last.previewed[i])>>

\* C27: no batch on the undo stack is empty; an execute_rename that renamed
\* files leaves on top of the stack one batch, the pairs of exactly the files
\* it renamed, in list order, and an execute_rename that renamed none leaves
\* the stack as it was.
C27_BatchIsTheRenamesOfOneExecute ==
    /\ \A b \in 1..Len(undo_stack) : undo_stack[b] # <<>>
    /\ last.op = "execute_rename" =>
          /\ Len(last.batch) = Cardinality(Moved)
          /\ \A k \in 1..Len(last.batch) :
                \E i \in Moved : /\ last.batch[k] = PairOf(i)
                                 /\ Cardinality({j \in Moved : j < i}) = k - 1
          /\ IF Moved = {}
             THEN undo_stack = last.pre.undo_stack
             ELSE /\ undo_stack[Len(undo_stack)] = last.batch
                  /\ \A b \in 1..(Len(undo_stack) - 1) :
                        undo_stack[b] = last.pre.undo_stack[
                                            b + Len(last.pre.undo_stack) + 1 - Len(undo_stack)]

\* an execute in which every pending file failed, right after an execute
\* that pushed the batch of the file it renamed beside one that failed
C27_NothingRenamedAfterOneRenamed ==
    /\ last.op = "execute_rename"
    /\ prev.op = "execute_rename"
    /\ prev.batch # <<>> /\ prev.errors # <<>>
    /\ last.validation_errors = <<>>
    /\ Pending(last.previewed) # {}
    /\ last.batch = <<>>
    /\ undo_stack = <<prev.batch>>

\* C28: when configure_operation is given a token list with an invalid token
\* the stored pattern is the one held before the call, not the valid tokens
\* that come before the invalid one.
C28_RejectedListLeavesPattern ==
    /\ applied.fn = "configure_operation"
    /\ \E i \in 1..Len(applied.pattern_elements) :
          ~validate_pattern_placeholder(applied.pattern_elements[i])
    => operation.elements = applied.held

\* a list whose second token is invalid, after which the stored pattern is
\* the first token alone
C28_ValidPrefixStored ==
    /\ applied.fn = "configure_operation"
    /\ Len(applied.pattern_elements) > 1
    /\ validate_pattern_placeholder(applied.pattern_elements[1])
    /\ ~validate_pattern_placeholder(applied.pattern_elements[2])
    /\ Len(operation.elements) = 1
    /\ operation.elements[1].value = applied.pattern_elements[1]
    /\ applied.held # operation.elements

\* the last execute_rename recorded a pair for file i of the previewed list
Succeeded(i) ==
    \E k \in 1..Len(last.batch) : last.batch[k] = PairOf(i)

\* C29: after an execute_rename every entity it renamed has the new path as
\* its path, the new name as its base name and no pending name, and every
\* pending entity it did not rename has its path and base name as before, its
\* file still being at that path.
C29_EntitiesFollowTheirFiles ==
    last.op = "execute_rename" =>
        /\ Len(files) = Len(last.previewed)
        /\ \A i \in Pending(last.previewed) :
              LET item == last.previewed[i]
              IN IF Succeeded(i)
                 THEN /\ files[i].original_path = new_path(item)
                      /\ files[i].original_name = item.new_name
                      /\ files[i].new_name = <<>>
                      /\ files[i].original_path \in DOMAIN disk
                      /\ disk[files[i].original_path] = last.pre.disk[item.original_path]
                 ELSE /\ files[i].original_path = item.original_path
                      /\ files[i].original_name = item.original_name
                      /\ item.original_path \in DOMAIN last.pre.disk =>
                            /\ item.original_path \in DOMAIN disk
                            /\ disk[item.original_path] = last.pre.disk[item.original_path]

\* an execute that renamed one entity and failed on another, which keeps
\* its pending name
C29_OneFollowedOneKept ==
    /\ last.op = "execute_rename"
    /\ last.validation_errors = <<>>
    /\ \E i, j \in Pending(last.previewed) :
          /\ Succeeded(i)
          /\ files[i].new_name = <<>>
          /\ ~Succeeded(j)
          /\ files[j].new_name # <<>>
          /\ files[j].original_path \in DOMAIN disk

\* the per-file errors of the last execute_rename, and the pending files it
\* did not rename
PerFileErrors == SelectSeq(last.errors, LAMBDA e : e.kind = "Failed to rename")

Failed == {i \in Pending(last.previewed) : ~Succeeded(i)}

\* C30 as stated: in every execute_rename the successful pairs and the
\* per-file errors are together as many as the files with a pending name.
C30_EveryPendingFileAttempted ==
    last.op = "execute_rename" =>
        Len(last.batch) + Len(PerFileErrors) = Cardinality(Pending(last.previewed))

\* C30: an execute_rename whose batch passed validation attempts each file
\* with a pending name once, in list order: the pairs and the per-file errors
\* are together as many as the pending files, the pairs are those of the
\* renamed files and the errors name the other pending files, each in list
\* order, and a file with no pending name keeps its entity and its place on
\* disk. An execute_rename blocked by validation attempts no file.
C30_OnePassOverPendingFilesAfterValidation ==
    last.op = "execute_rename" =>
        IF last.validation_errors # <<>>
        THEN /\ last.batch = <<>>
             /\ PerFileErrors = <<>>
             /\ last.progress = <<>>
             /\ disk = last.pre.disk
        ELSE /\ Len(last.batch) + Len(PerFileErrors) = Cardinality(Pending(last.previewed))
             /\ Len(last.errors) = Len(PerFileErrors)
             /\ Len(last.progress) = Cardinality(Pending(last.previewed))
             /\ \A k \in 1..Len(last.batch) :
                   \E i \in Pending(last.previewed) \ Failed :
                       /\ last.batch[k] = PairOf(i)
                       /\ Cardinality({j \in Pending(last.previewed) \ Failed : j < i})
                              = k - 1
             /\ \A k \in 1..Len(last.errors) :
                   \E i \in Failed :
                       /\ last.errors[k].name = Basename(last.previewed[i].original_path)
                       /\ Cardinality({j \in Failed : j < i}) = k - 1
             /\ \A i \in (1..Len(last.previewed)) \ Pending(last.previewed) :
                   /\ files[i] = last.previewed[i]
                   /\ files[i].original_path \in DOMAIN last.pre.disk =>
                         /\ files[i].original_path \in DOMAIN disk
                         /\ disk[files[i].original_path]
                                = last.pre.disk[files[i].original_path]

\* an execute over a file with no pending name, a file that fails and a
\* file that is renamed
C30_SkippedFailedRenamed ==
    /\ last.op = "execute_rename"
    /\ last.validation_errors = <<>>
    /\ Pending(last.previewed) # 1..Len(last.previewed)
    /\ Failed # {}
    /\ last.batch # <<>>

\* what the placeholders of pattern mode stand for, for file i of the list
\* under the operation op: the prefix and the suffix, the number when
\* numbering is on, the date when dating is on and the file has one
Rendered(i, op) ==
    [prefix |-> op.prefix,
     suffix |-> op.suffix,
     num |-> IF op.add_numbers
             THEN ZFill(IntStr(op.start_number + (i - 1)), op.padding) ELSE <<>>,
     date |-> IF op.add_date
              THEN get_date_by_type(disk, platform, files[i].original_path,
                                    op.date_type, op.date_format)
              ELSE <<>>]

\* the find/replace of the operation op has a result: there is nothing to
\* find, or the replacement text is taken as it is, or it is a template that
\* re.sub accepts
Replaceable(op) ==
    op.find_text = <<>> \/ op.case_sensitive \/ ExpandTemplate(op.replace_text).ok

\* the find/replace result of the original base name of file i
Replaced(i, op) ==
    IF op.find_text # <<>>
    THEN ReplaceAll(files[i].original_name, op.find_text,
                    IF op.case_sensitive THEN op.replace_text
                    ELSE ExpandTemplate(op.replace_text).str,
                    op.case_sensitive)
    ELSE files[i].original_name

Undated(op) == apply_standard_operations(files, [op EXCEPT !.add_date = FALSE], disk, platform)

\* the date of file i under op, empty when none is obtained
DateOf(i, op) ==
    get_date_by_type(disk, platform, files[i].original_path, op.date_type, op.date_format)

\* C32: in standard mode with dating on, a file for which no date is
\* obtained keeps the pending name the earlier stages gave it (none when no
\* earlier stage applied), and every other file of the batch gets '_' + date
\* appended to its name.
C32_MissingDateSkipsThatFileOnly ==
    applied.fn = "apply_standard_operations" /\ applied.op.add_date =>
        \A i \in 1..Len(files) :
            LET before == Undated(applied.op)[i].new_name
            IN applied.result[i].new_name
                   = IF DateOf(i, applied.op) = <<>> THEN before
                     ELSE (IF before # <<>> THEN before ELSE files[i].original_name)
                          \o <<"_">> \o DateOf(i, applied.op)

\* a batch dated by EXIF alone in which one file got its date and another,
\* which has none, got no pending name
C32_OneDatedOneLeftAlone ==
    /\ applied.fn = "apply_standard_operations"
    /\ applied.op.add_date
    /\ applied.op.find_text = <<>> /\ applied.op.prefix = <<>> /\ applied.op.suffix = <<>>
    /\ ~applied.op.add_numbers
    /\ \E i, j \in 1..Len(files) :
          /\ DateOf(i, applied.op) # <<>>
          /\ applied.result[i].new_name
                 = files[i].original_name \o <<"_">> \o DateOf(i, applied.op)
          /\ DateOf(j, applied.op) = <<>>
          /\ applied.result[j].new_name = <<>>

\* C33: generate_filename never returns an empty body (it falls back to the
\* original base name, and to 'unnamed' when that is empty too), and in
\* pattern mode every listed file has a non-empty pending name once the
\* pattern was applied.
C33_PatternModeLeavesNoEmptyName ==
    /\ applied.fn = "generate_filename" =>
           \E body \in {Trimmed(Squeezed(Emitted(applied.pattern_list, applied.original_name,
                                                  applied.values, 1)))} :
               applied.result = (IF body # <<>> THEN body
                                 ELSE IF applied.original_name # <<>> THEN applied.original_name
                                 ELSE <<"u", "n", "n", "a", "m", "e", "d">>)
                                    \o Dotted(applied.extension)
    /\ applied.fn = "apply_pattern_operation" =>
           \A i \in 1..Len(files) : applied.result[i].new_name # <<>>

\* a pattern of a separator alone applied to an empty base name: the body
\* falls back to 'unnamed'
C33_FallsBackToUnnamed ==
    /\ applied.fn = "generate_filename"
    /\ applied.pattern_list = <<<<"_">>>>
    /\ applied.original_name = <<>>
    /\ applied.extension = <<"j", "p", "g">>
    /\ applied.result = <<"u", "n", "n", "a", "m", "e", "d", ".", "j", "p", "g">>

\* pattern mode with the case ignored and a replacement text that re.sub
\* takes for a group reference: files are listed and not one has a pending
\* name
C33_NoPendingNameAtAll ==
    /\ applied.fn = "apply_pattern_operation"
    /\ ~Replaceable(applied.op)
    /\ files # <<>>
    /\ \A i \in 1..Len(files) : applied.result[i].new_name = <<>>

\* what generate_filename returned, before the extension
Body == SubSeq(applied.result, 1, Len(applied.result) - Len(Dotted(applied.extension)))

\* C34: the body generate_filename returns has no two adjacent characters
\* out of '-', '_' and space, and neither starts nor ends with one of them.
C34_BodyHasCleanSeparators ==
    applied.fn = "generate_filename" =>
        /\ \A k \in 1..(Len(Body) - 1) :
               ~(Body[k] \in separators /\ Body[k + 1] \in separators)
        /\ Body # <<>> => Body[1] \notin separators /\ Body[Len(Body)] \notin separators

\* the tokens emit separators only, so that the cleaned body is empty, and
\* the original base name, which ends with '_', is returned as it is
C34_FallbackKeepsSeparator ==
    /\ applied.fn = "generate_filename"
    /\ applied.pattern_list = <<<<"_">>>>
    /\ applied.original_name = <<"a", "_">>
    /\ applied.extension = <<"j", "p", "g">>
    /\ applied.result = <<"a", "_", ".", "j", "p", "g">>

\* a body made of the tokens: its run of separators is cut down to the first
\* one and the separator at its end is gone
C34_RunCutAndEndTrimmed ==
    /\ applied.fn = "generate_filename"
    /\ applied.pattern_list = <<default_pattern[2], <<"-">>, <<"_">>>>
    /\ applied.original_name = <<"a", "_">>
    /\ applied.extension = <<>>
    /\ applied.result = <<"a">>

\* C35: whatever calls of add_element, remove_element, move_element,
\* set_pattern_from_list and set_pattern_from_string were made, accepted or
\* not, the position of every token of the pattern is its index, and every
\* placeholder token is one of the five placeholders.
C35_PositionsAreIndexesPlaceholdersKnown ==
    \A i \in 1..Len(operation.elements) :
        /\ operation.elements[i].position = i - 1
        /\ operation.elements[i].type = "placeholder"
               => operation.elements[i].value \in valid_placeholders
        /\ IsBraced(operation.elements[i].value)
               => operation.elements[i].type = "placeholder"

\* a token was inserted in front of the others, which moved up by one, and
\* the last call, given a position outside the pattern, was refused
C35_InsertedInFrontThenRefused ==
    /\ applied.fn \in {"remove_element", "move_element"}
    /\ ~applied.ok
    /\ Len(operation.elements) = MaxElements
    /\ operation.elements[1].value = <<"x">>
    /\ operation.elements[2].value = default_pattern[2]
    /\ operation.elements[2].position = 1

\* C36: a literal token is in the pattern only if is_valid_filename, the
\* check made before a file is renamed, passes it.
C36_LiteralsAreLegalFilenames ==
    \A i \in 1..Len(operation.elements) :
        operation.elements[i].type = "text" => is_valid_filename(operation.elements[i].value)

\* add_element accepted the literal 'CON', the name of a device
C36_DeviceNameAccepted ==
    /\ applied.fn = "add_element"
    /\ applied.ok
    /\ \E i \in 1..Len(operation.elements) :
           /\ operation.elements[i].type = "text"
           /\ operation.elements[i].value = <<"C", "O", "N">>

\* C36, the part of it about characters: no literal token of the pattern
\* has a character that no file name may have.
C36_LiteralsHaveNoIllegalCharacter ==
    \A i \in 1..Len(operation.elements) :
        operation.elements[i].type = "text" =>
            \A k \in 1..Len(operation.elements[i].value) :
                operation.elements[i].value[k] \notin invalid_chars
====
